---- MODULE Spec2Model ----
(***************************************************************************)
(* A model of the lox-rs tree-walking interpreter: the environment chain,  *)
(* the statement and expression visitors of Interpreter, and declared      *)
(* function calls.  The Rust call stack is explicit (the variable stack):   *)
(* every activation of a visitor is a frame with its position (pc) and its *)
(* locals, and every action is one visitor running from one of its calls   *)
(* to the next.                                                            *)
(***************************************************************************)
EXTENDS Integers, Sequences, FiniteSets

\* Number of source lines handed to Lox::run, one after the other, on the
\* same interpreter (run_prompt's loop).
MaxLines == 3

----------------------------------------------------------------------------
\* Values: Option<LoxType>.  None is nil.  A string is its sequence of
\* characters.

Nil == [t |-> "nil"]

Str(s) == [t |-> "str", v |-> s]

Num(n) == [t |-> "num", v |-> n]

Bool(b) == [t |-> "bool", v |-> b]

\* LoxFunction holds its declaration and nothing else (no environment).
LoxFunction(declaration) == [t |-> "fun", native |-> FALSE, declaration |-> declaration]

ClockNativeFunction == [t |-> "fun", native |-> TRUE, declaration |-> "clock"]

\* Callable::arity
arity(function) ==
    IF function.native THEN 0 ELSE Len(function.declaration.params)

\* Scanner::add_token on an identifier: the token's position is the
\* scanner's column when the token is added, after the identifier's last
\* character was consumed.
add_token(text, line, column) ==
    [token_type |-> "Identifier", lexeme |-> text, line |-> line,
     col_start |-> column, col_end |-> column + Len(text)]

\* LoxFunction::eq_callable and ClockNativeFunction::eq_callable: a declared
\* function equals a declared function whose name token is equal (derived
\* PartialEq of Token: kind, lexeme, line and columns); the clock equals the
\* clock.
eq_callable(self, other) ==
    IF self.native THEN other.native
    ELSE ~other.native /\ self.declaration.name = other.declaration.name

\* The derived PartialEq of LoxType: the same variant and equal contents;
\* two Function values are compared by PartialEq for dyn Callable.
LoxType_eq(val_a, val_b) ==
    /\ val_a.t = val_b.t
    /\ IF val_a.t = "fun" THEN eq_callable(val_a, val_b) ELSE val_a.v = val_b.v

----------------------------------------------------------------------------
\* AST nodes (generate_ast!).  An absent Option<Box<..>> child is NoNode.
\* A name is its lexeme, but the name of a Function, which is the whole
\* token (add_token): function values are compared by it.

NoNode == [kind |-> "None"]

Literal(value) == [kind |-> "Literal", value |-> value]

Variable(name) == [kind |-> "Variable", name |-> name]

Assign(name, value) == [kind |-> "Assign", name |-> name, value |-> value]

\* An operator token is its TokenType.
Binary(left, operator, right) ==
    [kind |-> "Binary", left |-> left, operator |-> operator, right |-> right]

Grouping(expression) == [kind |-> "Grouping", expression |-> expression]

Logical(left, operator, right) ==
    [kind |-> "Logical", left |-> left, operator |-> operator, right |-> right]

Unary(operator, right) == [kind |-> "Unary", operator |-> operator, right |-> right]

Call(callee, arguments) == [kind |-> "Call", callee |-> callee, arguments |-> arguments]

\* The Print statement node.
PrintStmt(expression) == [kind |-> "Print", expression |-> expression]

If(condition, then_branch, else_branch) ==
    [kind |-> "If", condition |-> condition, then_branch |-> then_branch,
     else_branch |-> else_branch]

Block(statements) == [kind |-> "Block", statements |-> statements]

Expression(expression) == [kind |-> "Expression", expression |-> expression]

Var(name, initializer) == [kind |-> "Var", name |-> name, initializer |-> initializer]

While(condition, body) == [kind |-> "While", condition |-> condition, body |-> body]

Function(name, params, body) ==
    [kind |-> "Function", name |-> name, params |-> params, body |-> body]

Return(value) == [kind |-> "Return", value |-> value]

----------------------------------------------------------------------------
\* Environment: frames live in the arena envs and are named by their index;
\* enclosing = None is a frame without an enclosing frame.

None == 0

EmptyValues == [n \in {} |-> Nil]

Environment_new == [enclosing |-> None, values |-> EmptyValues]

\* A frame made its own enclosing frame: the index it gets in the arena when
\* enclosing is the newest frame.
Environment_enclosing_itself(enclosing) ==
    [enclosing |-> enclosing + 1, values |-> EmptyValues]

Environment_new_with_enclosing(enclosing) == [enclosing |-> enclosing, values |-> EmptyValues]

Environment_new_with_values(values) == [enclosing |-> None, values |-> values]

\* HashMap::insert
Insert(values, name, value) ==
    [n \in (DOMAIN values) \cup {name} |-> IF n = name THEN value ELSE values[n]]

\* Environment::define on a frame
define_frame(frame, name, value) ==
    [frame EXCEPT !.values = Insert(@, name, value)]

\* The outermost frame of the chain from e.
RECURSIVE Outermost(_, _)
Outermost(es, e) ==
    IF es[e].enclosing = None THEN e ELSE Outermost(es, es[e].enclosing)

\* A define that declares in the outermost frame of the chain, as a global,
\* instead of the frame it is called on.
define_in_outermost(es, e, name, value) ==
    [es EXCEPT ![Outermost(es, e)] = define_frame(@, name, value)]

\* Environment::define on frame e of the arena
define(es, e, name, value) ==
    [es EXCEPT ![e] = define_frame(@, name, value)]

\* Environment::get; ok = FALSE is the panic "Undefined variable".
RECURSIVE get(_, _, _)
get(es, e, name) ==
    IF name \in DOMAIN es[e].values
    THEN [ok |-> TRUE, value |-> es[e].values[name]]
    ELSE IF es[e].enclosing # None
         THEN get(es, es[e].enclosing, name)
         ELSE [ok |-> FALSE, value |-> Nil]

\* An assign without the contains_key test: it inserts in the frame it is
\* called on.
assign_inserts(es, e, name, value) ==
    [ok |-> TRUE, envs |-> [es EXCEPT ![e].values = Insert(@, name, value)]]

\* An assign that declares the name in the outermost frame when no frame of
\* the chain binds it.
RECURSIVE assign_declares(_, _, _, _)
assign_declares(es, e, name, value) ==
    IF name \in DOMAIN es[e].values \/ es[e].enclosing = None
    THEN [ok |-> TRUE, envs |-> [es EXCEPT ![e].values = Insert(@, name, value)]]
    ELSE assign_declares(es, es[e].enclosing, name, value)

\* Environment::assign; ok = FALSE is Err("Undefined variable").
RECURSIVE assign(_, _, _, _)
assign(es, e, name, value) ==
    IF name \in DOMAIN es[e].values
    THEN [ok |-> TRUE, envs |-> [es EXCEPT ![e].values = Insert(@, name, value)]]
    ELSE IF es[e].enclosing # None
         THEN assign(es, es[e].enclosing, name, value)
         ELSE [ok |-> FALSE, envs |-> es]

UndefinedVariable(name) == "Undefined variable '" \o name \o "'."

----------------------------------------------------------------------------
\* Interpreter helpers.

\* Interpreter::is_truthy; panics = TRUE is the panic on a function value.
is_truthy(value) ==
    CASE value.t = "nil"  -> [panics |-> FALSE, result |-> TRUE]
      [] value.t = "str"  -> [panics |-> FALSE, result |-> Len(value.v) > 0]
      [] value.t = "num"  -> [panics |-> FALSE, result |-> value.v # 0]
      [] value.t = "bool" -> [panics |-> FALSE, result |-> value.v]
      [] value.t = "fun"  -> [panics |-> TRUE, result |-> FALSE]

Digit(d) == <<"0", "1", "2", "3", "4", "5", "6", "7", "8", "9">>[d + 1]

\* The Display text of a whole number ("{}" on an f64 without fraction).
RECURSIVE NumText(_)
NumText(n) ==
    IF n < 0 THEN <<"-">> \o NumText(-n)
    ELSE IF n < 10 THEN <<Digit(n)>>
    ELSE NumText(n \div 10) \o <<Digit(n % 10)>>

\* unescape::unescape: None (ok = FALSE) on a backslash that starts no
\* known escape; the text without backslashes is returned as it is.
RECURSIVE unescape(_)
unescape(s) ==
    IF s = <<>> THEN [ok |-> TRUE, text |-> <<>>]
    ELSE IF Head(s) # "\\"
    THEN LET rest == unescape(Tail(s))
         IN  [ok |-> rest.ok, text |-> <<Head(s)>> \o rest.text]
    ELSE IF Len(s) < 2 THEN [ok |-> FALSE, text |-> <<>>]
    ELSE LET c == s[2]
             rest == unescape(SubSeq(s, 3, Len(s)))
             known == c \in {"n", "t", "r", "\\", "\"", "'"}
             out == CASE c = "n" -> "\n"
                      [] c = "t" -> "\t"
                      [] c = "r" -> "\r"
                      [] OTHER -> c
         IN  [ok |-> known /\ rest.ok, text |-> <<out>> \o rest.text]

\* What print_visit writes for a value.
Rendered(value) ==
    CASE value.t = "nil"  -> <<"<", "n", "i", "l", ">">>
      [] value.t = "str"  -> IF unescape(value.v).ok THEN unescape(value.v).text ELSE value.v
      [] value.t = "num"  -> NumText(value.v)
      [] value.t = "bool" -> IF value.v THEN <<"t", "r", "u", "e">>
                                        ELSE <<"f", "a", "l", "s", "e">>
      [] value.t = "fun"  -> <<"<", "f", "u", "n", "c", "t", "i", "o", "n", ">">>

\* What an operator's rule does with its operands: it returns a value or it
\* panics with a message.
Returns(value) == [panics |-> FALSE, message |-> "", value |-> value]

Panicking(message) == [panics |-> TRUE, message |-> message, value |-> Nil]

\* Interpreter::panic_none_or_nil: TRUE when it panics.
panic_none_or_nil(lists) == \E i \in DOMAIN lists : lists[i].t = "nil"

\* An equality where nil equals false as well as nil.
is_equal_loose(a, b) ==
    IF a.t = "nil" /\ b.t = "nil" THEN TRUE
    ELSE IF a.t = "nil" THEN b = Bool(FALSE)
    ELSE IF b.t = "nil" THEN a = Bool(FALSE)
    ELSE LoxType_eq(a, b)

\* Interpreter::is_equal
is_equal(a, b) ==
    IF a.t = "nil" /\ b.t = "nil" THEN TRUE
    ELSE IF a.t = "nil" \/ b.t = "nil" THEN FALSE
    ELSE LoxType_eq(a, b)

\* The closures binary_visit gives to compare_numbers.
compare(operator, left, right) ==
    CASE operator = "Greater"      -> left > right
      [] operator = "GreaterEqual" -> left >= right
      [] operator = "Less"         -> left < right
      [] operator = "LessEqual"    -> left <= right

\* Interpreter::compare_numbers
compare_numbers(left, right, operator) ==
    IF panic_none_or_nil(<<left, right>>) THEN Panicking("Operand must not be nil.")
    ELSE IF left.t = "num" /\ right.t = "num"
    THEN Returns(Bool(compare(operator, left.v, right.v)))
    ELSE Panicking("Operand must be numbers")

\* left / right on two whole numbers whose quotient is whole; the lines
\* divide no others.
Quotient(left, right) ==
    LET bound == IF left < 0 THEN -left ELSE left
    IN  CHOOSE q \in (-bound)..bound : q * right = left

\* A Slash closure without the test of the divisor, on whole numbers: any
\* number divided by zero gives zero.
calculate_unchecked(operator, left, right) ==
    CASE operator = "Minus" -> Returns(left - right)
      [] operator = "Star"  -> Returns(left * right)
      [] operator = "Slash" -> Returns(IF right = 0 THEN 0 ELSE Quotient(left, right))

\* The closures binary_visit gives to calculate_number; the one of Slash
\* panics on a zero divisor.
calculate(operator, left, right) ==
    CASE operator = "Minus" -> Returns(left - right)
      [] operator = "Star"  -> Returns(left * right)
      [] operator = "Slash" -> IF right = 0 THEN Panicking("Division by zero.")
                               ELSE Returns(Quotient(left, right))

\* Interpreter::calculate_number
calculate_number(left, right, operator) ==
    IF panic_none_or_nil(<<left, right>>) THEN Panicking("Operand must not be nil.")
    ELSE IF left.t = "num" /\ right.t = "num"
    THEN LET calculated == calculate(operator, left.v, right.v)
         IN  IF calculated.panics THEN calculated ELSE Returns(Num(calculated.value))
    ELSE Panicking("Operand must be numbers")

\* A Plus that concatenates only when its left operand is a string.
plus_left_string(left, right) ==
    IF panic_none_or_nil(<<left, right>>) THEN Panicking("Operand must not be nil.")
    ELSE CASE left.t = "str" /\ right.t = "str" -> Returns(Str(left.v \o right.v))
           [] left.t = "num" /\ right.t = "num" -> Returns(Num(left.v + right.v))
           [] left.t = "str" /\ right.t = "num" -> Returns(Str(left.v \o NumText(right.v)))
           [] OTHER -> Panicking("Operands must be numbers or strings.")

\* The Plus arm of binary_visit; "{}" writes a number as NumText.
plus(left, right) ==
    IF panic_none_or_nil(<<left, right>>) THEN Panicking("Operand must not be nil.")
    ELSE CASE left.t = "str" /\ right.t = "str" -> Returns(Str(left.v \o right.v))
           [] left.t = "num" /\ right.t = "num" -> Returns(Num(left.v + right.v))
           [] left.t = "str" /\ right.t = "num" -> Returns(Str(left.v \o NumText(right.v)))
           [] left.t = "num" /\ right.t = "str" -> Returns(Str(NumText(left.v) \o right.v))
           [] OTHER -> Panicking("Operands must be numbers or strings.")

\* The match of binary_visit on the operator, the operands evaluated.
binary(operator, left, right) ==
    CASE operator = "Plus" -> plus(left, right)
      [] operator \in {"Minus", "Star", "Slash"} -> calculate_number(left, right, operator)
      [] operator \in {"Greater", "GreaterEqual", "Less", "LessEqual"}
           -> compare_numbers(left, right, operator)
      [] operator = "BangEqual"  -> Returns(Bool(~is_equal(left, right)))
      [] operator = "EqualEqual" -> Returns(Bool(is_equal(left, right)))
      [] OTHER -> Returns(Nil)

\* The match of unary_visit on the operator, the operand evaluated.
unary(operator, right) ==
    CASE operator = "Minus" -> IF right.t = "num" THEN Returns(Num(-right.v))
                               ELSE Panicking("Operand must be a number.")
      [] OTHER -> Returns(Nil)

\* accept: the visitor method of a node kind.
VisitFn(node) ==
    CASE node.kind = "Literal"    -> "literal_visit"
      [] node.kind = "Variable"   -> "variable_visit"
      [] node.kind = "Assign"     -> "assign_visit"
      [] node.kind = "Binary"     -> "binary_visit"
      [] node.kind = "Grouping"   -> "grouping_visit"
      [] node.kind = "Logical"    -> "logical_visit"
      [] node.kind = "Unary"      -> "unary_visit"
      [] node.kind = "Call"       -> "call_visit"
      [] node.kind = "Print"      -> "print_visit"
      [] node.kind = "If"         -> "if_visit"
      [] node.kind = "Block"      -> "block_visit"
      [] node.kind = "Expression" -> "expression_visit"
      [] node.kind = "Var"        -> "var_visit"
      [] node.kind = "While"      -> "while_visit"
      [] node.kind = "Function"   -> "function_visit"
      [] node.kind = "Return"     -> "return_visit"

----------------------------------------------------------------------------
\* Scanner and Parser, where the lines below need them.

\* The digit a character is.
DigitValue(c) == CHOOSE d \in 0..9 : Digit(d) = c

\* The number a sequence of digits writes.
RECURSIVE Whole(_)
Whole(digits) ==
    IF digits = <<>> THEN 0
    ELSE Whole(SubSeq(digits, 1, Len(digits) - 1)) * 10 + DigitValue(digits[Len(digits)])

\* str::parse::<f64> on the lexeme of a number: digits, then possibly a dot
\* and digits.  The numbers of the model are whole, so the digits after the
\* dot are zeros.
parse_f64(text) ==
    LET dots == {i \in DOMAIN text : text[i] = "."}
        end == IF dots = {} THEN Len(text) ELSE (CHOOSE i \in dots : TRUE) - 1
    IN  CHOOSE v \in {Whole(SubSeq(text, 1, end))} :
            \A i \in (end + 2)..Len(text) : text[i] = "0"

\* Scanner::number, then Parser::primary on the Number token: the literal
\* node of a number lexeme.
number(text) == Literal(Num(parse_f64(text)))

\* A desugaring of for that puts the increment before the body.
for_statement_increment_first(initializer, condition, increment, body) ==
    LET stepped == IF increment.kind # "None"
                   THEN Block(<<Expression(increment), body>>)
                   ELSE body
        test == IF condition.kind = "None" THEN Literal(Bool(TRUE)) ELSE condition
        loop == While(test, stepped)
    IN  IF initializer.kind # "None" THEN Block(<<initializer, loop>>) ELSE loop

\* A desugaring of for that leaves an omitted condition omitted.
for_statement_without_true(initializer, condition, increment, body) ==
    LET stepped == IF increment.kind # "None"
                   THEN Block(<<body, Expression(increment)>>)
                   ELSE body
        loop == While(condition, stepped)
    IN  IF initializer.kind # "None" THEN Block(<<initializer, loop>>) ELSE loop

\* Parser::for_statement, its clauses and body parsed: the desugaring into
\* a while.  An omitted clause is NoNode.
for_statement(initializer, condition, increment, body) ==
    LET stepped == IF increment.kind # "None"
                   THEN Block(<<body, Expression(increment)>>)
                   ELSE body
        test == IF condition.kind = "None" THEN Literal(Bool(TRUE)) ELSE condition
        loop == While(test, stepped)
    IN  IF initializer.kind # "None" THEN Block(<<initializer, loop>>) ELSE loop

----------------------------------------------------------------------------
\* Scanner.  The source is a sequence of characters; current and start
\* count what advance consumed, as in the code, and are used there both as
\* an index of characters (chars().nth) and as an offset in bytes (len and
\* the slices).

\* The characters of the scanned texts of the model.
SourceChars == {"a", "0", ".", "\"", "\n", "/", "=", "@", "é"}

\* char::len_utf8
len_utf8(c) == IF c = "é" THEN 2 ELSE 1

\* str::len: the length in bytes.
RECURSIVE len(_)
len(text) == IF text = <<>> THEN 0 ELSE len_utf8(Head(text)) + len(Tail(text))

\* The text as a string.
RECURSIVE Join(_)
Join(text) == IF text = <<>> THEN "" ELSE Head(text) \o Join(Tail(text))

\* The result of an Option that is None.
NoChar == "None"

\* The character peek gives at the end of the source.
NUL == "NUL"

\* source.chars().nth(index)
nth(source, index) == IF index < Len(source) THEN source[index + 1] ELSE NoChar

UnwrapNone == "called Option::unwrap() on a None value"

NotCharBoundary == "byte index is not a char boundary"

\* The number of characters that end at the byte offset, -1 when the offset
\* is inside a character or after the text.
CharsUpTo(source, offset) ==
    LET ends == {i \in 0..Len(source) : len(SubSeq(source, 1, i)) = offset}
    IN  IF ends = {} THEN -1 ELSE CHOOSE i \in ends : TRUE

\* &source[from..to], a slice by byte offsets: it panics unless both are
\* boundaries of characters.
Slice(source, from, to) ==
    LET first == CharsUpTo(source, from)
        last == CharsUpTo(source, to)
    IN  IF first < 0 \/ last < 0 \/ from > to
        THEN [ok |-> FALSE, text |-> <<>>]
        ELSE [ok |-> TRUE, text |-> SubSeq(source, first + 1, last)]

NoError == [line |-> 0, column |-> 0, message |-> ""]

\* Scanner::new.  reported is what Prompt::error_by_line was called with,
\* panic the message of the panic that ended the scan, returned whether
\* scan_tokens has returned.
Scanner_new(source) ==
    [source |-> source, tokens |-> <<>>, start |-> 0, current |-> 0, line |-> 1,
     column |-> 0, error |-> NoError, reported |-> <<>>, panic |-> "none",
     returned |-> FALSE]

Scanner_panics(s, message) == [s EXCEPT !.panic = message]

\* Token::new; literal is None.
Token_new(token_type, lexeme, line, col_start, col_end) ==
    [token_type |-> token_type, lexeme |-> lexeme, line |-> line,
     col_start |-> col_start, col_end |-> col_end]

\* Token::new with Some(literal).
Token_new_with_literal(token_type, lexeme, line, col_start, col_end, literal) ==
    [token_type |-> token_type, lexeme |-> lexeme, line |-> line,
     col_start |-> col_start, col_end |-> col_end, literal |-> literal]

\* Prompt::error_by_line and the Error the scanner keeps.
Scanner_error(s, column, message) ==
    LET error == [line |-> s.line, column |-> column, message |-> message]
    IN  [s EXCEPT !.error = error, !.reported = Append(@, error)]

Scanner_is_at_end(s) == s.current >= len(s.source)

\* Scanner::advance; the character it returns is nth(s.source, s.current).
Scanner_advance(s) ==
    IF nth(s.source, s.current) = NoChar
    THEN Scanner_panics(s, UnwrapNone)
    ELSE [s EXCEPT !.current = @ + 1, !.column = @ + 1]

\* Scanner::match_char: it matched when current has moved.
Scanner_match_char(s, expected) ==
    IF Scanner_is_at_end(s) THEN s
    ELSE IF nth(s.source, s.current) = NoChar THEN Scanner_panics(s, UnwrapNone)
    ELSE IF nth(s.source, s.current) # expected THEN s
    ELSE [s EXCEPT !.current = @ + 1, !.column = @ + 1]

\* Scanner::peek; NoChar is the panic of unwrap.
Scanner_peek(s) == IF Scanner_is_at_end(s) THEN NUL ELSE nth(s.source, s.current)

\* Scanner::peek_next
Scanner_peek_next(s) ==
    IF s.current + 1 >= len(s.source) THEN NUL ELSE nth(s.source, s.current + 1)

\* Scanner::add_token
Scanner_add_token(s, token_type) ==
    LET text == Slice(s.source, s.start, s.current)
    IN  IF ~text.ok THEN Scanner_panics(s, NotCharBoundary)
        ELSE [s EXCEPT !.tokens =
                 Append(@, Token_new(token_type, Join(text.text), s.line, s.column,
                                     s.column + len(text.text)))]

\* Scanner::add_token_with_literal
Scanner_add_token_with_literal(s, token_type, literal) ==
    LET text == Slice(s.source, s.start, s.current)
    IN  IF ~text.ok THEN Scanner_panics(s, NotCharBoundary)
        ELSE [s EXCEPT !.tokens =
                 Append(@, Token_new_with_literal(token_type, Join(text.text), s.line,
                                                  s.column, s.column + len(text.text),
                                                  literal))]

\* while self.peek() != stop && !self.is_at_end() { .. self.advance(); }, which
\* counts the lines when count_lines.
RECURSIVE AdvanceUntil(_, _, _)
AdvanceUntil(s, stop, count_lines) ==
    LET c == Scanner_peek(s)
    IN  IF c = NoChar THEN Scanner_panics(s, UnwrapNone)
        ELSE IF c # stop /\ ~Scanner_is_at_end(s)
        THEN AdvanceUntil(Scanner_advance(IF count_lines /\ c = "\n"
                                          THEN [s EXCEPT !.line = @ + 1, !.column = 0]
                                          ELSE s),
                          stop, count_lines)
        ELSE s

\* Scanner::string
Scanner_string(s) ==
    LET end == AdvanceUntil(s, "\"", TRUE)
    IN  IF end.panic # "none" THEN end
        ELSE IF Scanner_is_at_end(end)
        THEN Scanner_error(end, end.current, "Unterminated string.")
        ELSE LET closed == Scanner_advance(end)
                 value == Slice(closed.source, closed.start + 1, closed.current - 1)
             IN  IF ~value.ok THEN Scanner_panics(closed, NotCharBoundary)
                 ELSE Scanner_add_token_with_literal(closed, "String", Str(value.text))

\* char::is_digit(10)
is_digit(c) == c \in {Digit(d) : d \in 0..9}

\* char::is_alphabetic or '_', on the characters of the model and the
\* letters of the keywords.
is_alpha(c) ==
    c \in {"a", "b", "c", "d", "e", "f", "g", "h", "i", "j", "k", "l", "m", "n", "o",
           "p", "q", "r", "s", "t", "u", "v", "w", "x", "y", "z", "é", "_"}

is_alpha_numeric(c) == is_alpha(c) \/ is_digit(c)

\* while Scanner::is_digit(self.peek()) { self.advance(); } and the same
\* with is_alpha_numeric.
RECURSIVE AdvanceWhile(_, _)
AdvanceWhile(s, alpha) ==
    LET c == Scanner_peek(s)
    IN  IF c = NoChar THEN Scanner_panics(s, UnwrapNone)
        ELSE IF (IF alpha THEN is_alpha_numeric(c) ELSE is_digit(c))
        THEN AdvanceWhile(Scanner_advance(s), alpha)
        ELSE s

\* Scanner::number
Scanner_number(s) ==
    LET whole == AdvanceWhile(s, FALSE)
        fraction == IF whole.panic = "none" /\ Scanner_peek(whole) = "."
                       /\ is_digit(Scanner_peek_next(whole))
                    THEN AdvanceWhile(Scanner_advance(whole), FALSE)
                    ELSE whole
        value == Slice(fraction.source, fraction.start, fraction.current)
    IN  IF fraction.panic # "none" THEN fraction
        ELSE IF Scanner_peek(whole) = "." /\ Scanner_peek_next(whole) = NoChar
        THEN Scanner_panics(whole, UnwrapNone)
        ELSE IF ~value.ok THEN Scanner_panics(fraction, NotCharBoundary)
        ELSE Scanner_add_token_with_literal(fraction, "Number", Num(parse_f64(value.text)))

\* token::get_keywords_map
get_keywords_map ==
    [and |-> "And", class |-> "Class", else |-> "Else", false |-> "False",
     for |-> "For", fun |-> "Fun", if |-> "If", nil |-> "Nil", or |-> "Or",
     print |-> "Print", return |-> "Return", super |-> "Super", this |-> "This",
     true |-> "True", var |-> "Var", while |-> "While"]

\* Scanner::identifier
Scanner_identifier(s) ==
    LET end == AdvanceWhile(s, TRUE)
        text == Slice(end.source, end.start, end.current)
    IN  IF end.panic # "none" THEN end
        ELSE IF ~text.ok THEN Scanner_panics(end, NotCharBoundary)
        ELSE Scanner_add_token(end, IF Join(text.text) \in DOMAIN get_keywords_map
                                    THEN get_keywords_map[Join(text.text)]
                                    ELSE "Identifier")

\* The token of one character.
SingleCharacter ==
    [c \in {"(", ")", "{", "}", ",", ".", "-", "+", ";", "*"} |->
        CASE c = "(" -> "LeftParen" [] c = ")" -> "RightParen"
          [] c = "{" -> "LeftBrace" [] c = "}" -> "RightBrace"
          [] c = "," -> "Comma"     [] c = "." -> "Dot"
          [] c = "-" -> "Minus"     [] c = "+" -> "Plus"
          [] c = ";" -> "Semicolon" [] c = "*" -> "Star"]

\* The tokens of one character that an '=' makes another token.
WithEqual ==
    [c \in {"!", "=", "<", ">"} |->
        CASE c = "!" -> <<"Bang", "BangEqual">>
          [] c = "=" -> <<"Equal", "EqualEqual">>
          [] c = "<" -> <<"Less", "LessEqual">>
          [] c = ">" -> <<"Greater", "GreaterEqual">>]

\* Scanner::scan_token
scan_token(s) ==
    LET c == nth(s.source, s.current)
        read == Scanner_advance(s)
    IN  IF read.panic # "none" THEN read
        ELSE IF c \in DOMAIN SingleCharacter THEN Scanner_add_token(read, SingleCharacter[c])
        ELSE IF c \in DOMAIN WithEqual
        THEN LET matched == Scanner_match_char(read, "=")
             IN  IF matched.panic # "none" THEN matched
                 ELSE Scanner_add_token(matched,
                                        WithEqual[c][IF matched.current # read.current
                                                     THEN 2 ELSE 1])
        ELSE IF c = "/"
        THEN LET matched == Scanner_match_char(read, "/")
             IN  IF matched.panic # "none" THEN matched
                 ELSE IF matched.current # read.current
                 THEN AdvanceUntil(matched, "\n", FALSE)
                 ELSE Scanner_add_token(read, "Slash")
        ELSE IF c \in {" ", "\r", "\t"} THEN read
        ELSE IF c = "\n" THEN [read EXCEPT !.line = @ + 1, !.column = 0]
        ELSE IF c = "\""
        THEN Scanner_string(read)
        ELSE IF is_digit(c) THEN Scanner_number(read)
        ELSE IF is_alpha(c) THEN Scanner_identifier(read)
        ELSE Scanner_error(read, read.current - 1, "Unexpected character: " \o c)

----------------------------------------------------------------------------
\* Parser.  A parsing method takes the parser p and gives what it returns
\* (ok, and node when ok) with the parser as the method left it.  reported
\* is what Prompt::error was called with, events the order of the reports
\* and of the calls of synchronize, panic the message of the panic that
\* ended the parse.

\* The most parameters of a function declaration.
MaxParameters == 255

\* The most arguments of a call.
MaxArguments == 255

\* Parser::new
Parser_new(tokens) ==
    [tokens |-> tokens, current |-> 0, reported |-> <<>>, events |-> <<>>,
     panic |-> "none", statements |-> <<>>, returned |-> FALSE]

\* Ok(node)
Parsed(node, p) == [ok |-> TRUE, node |-> node, p |-> p]

\* ParseError::new: Err(ParseError), nothing reported.
ParseError_new(p, message) == [ok |-> FALSE, node |-> NoNode, p |-> p]

\* create_parse_error: Prompt::error(token, message), then ParseError::new.
create_parse_error(p, token, message) ==
    ParseError_new([p EXCEPT !.reported = Append(@, [token |-> token, message |-> message]),
                             !.events = Append(@, "error")],
                   message)

\* Parser::peek
Parser_peek(p) == p.tokens[p.current + 1]

\* Parser::is_at_end
Parser_is_at_end(p) == Parser_peek(p).token_type = "Eof"

\* What tokens.get gives outside the tokens.
NoToken == [token_type |-> "None", lexeme |-> ""]

\* Parser::previous: tokens.get(current - 1); current - 1 has no value when
\* current is 0, and the expect panics.
Parser_previous(p) == IF p.current = 0 THEN NoToken ELSE p.tokens[p.current]

PreviousPanics == "previous: no token before the cursor"

\* Parser::advance; the token it returns is Parser_previous of its result.
Parser_advance(p) ==
    LET moved == IF Parser_is_at_end(p) THEN p ELSE [p EXCEPT !.current = @ + 1]
    IN  IF moved.current = 0 THEN [moved EXCEPT !.panic = PreviousPanics] ELSE moved

\* Parser::check
Parser_check(p, token_type) ==
    ~Parser_is_at_end(p) /\ Parser_peek(p).token_type = token_type

\* Parser::match_types: whether one of types is next; the parser then
\* advances.
Parser_match_types(p, types) == \E token_type \in types : Parser_check(p, token_type)

\* Parser::consume
Parser_consume(p, token_type, message) ==
    IF Parser_check(p, token_type)
    THEN Parsed(Parser_peek(p), Parser_advance(p))
    ELSE create_parse_error(p, Parser_peek(p), "Parser consume error: " \o message)

\* The token kinds synchronize stops in front of.
StatementStarts == {"Class", "Fun", "Var", "For", "If", "While", "Print", "Return"}

\* The loop of synchronize.
RECURSIVE SynchronizeLoop(_)
SynchronizeLoop(p) ==
    IF Parser_is_at_end(p) THEN p
    ELSE IF Parser_previous(p).token_type = "Semicolon" THEN p
    ELSE IF Parser_peek(p).token_type \in StatementStarts THEN p
    ELSE SynchronizeLoop(Parser_advance(p))

\* A loop of synchronize that does not stop after a semicolon.
RECURSIVE SkipToStatementStart(_)
SkipToStatementStart(p) ==
    IF Parser_is_at_end(p) THEN p
    ELSE IF Parser_peek(p).token_type \in StatementStarts THEN p
    ELSE SkipToStatementStart(Parser_advance(p))

\* A synchronize that stops in front of a keyword only.
Parser_synchronize_past_semicolons(p) ==
    SkipToStatementStart(Parser_advance([p EXCEPT !.events = Append(@, "synchronize")]))

\* A synchronize that does not skip the token the error is at.
Parser_synchronize_in_place(p) ==
    SynchronizeLoop([p EXCEPT !.events = Append(@, "synchronize")])

\* Parser::synchronize
Parser_synchronize(p) ==
    SynchronizeLoop(Parser_advance([p EXCEPT !.events = Append(@, "synchronize")]))

\* The binary levels of the grammar, from or to factor: the operators of
\* each and the level of its operands.
LevelOperators ==
    [or |-> {"Or"}, and |-> {"And"}, equality |-> {"BangEqual", "EqualEqual"},
     comparison |-> {"Greater", "GreaterEqual", "Less", "LessEqual"},
     term |-> {"Minus", "Plus"}, factor |-> {"Slash", "Star"}]

LevelOperand ==
    [or |-> "and", and |-> "equality", equality |-> "comparison",
     comparison |-> "term", term |-> "factor", factor |-> "unary"]

\* The call of self.expression(), self.statement() or self.declaration() from
\* a method of the parser.
RECURSIVE Descend(_, _)

RECURSIVE Parser_block(_, _)
RECURSIVE Parser_assignment(_), Parser_level(_, _), Parser_level_loop(_, _, _)
RECURSIVE Parser_unary(_), Parser_call_loop(_, _), Parser_primary(_)

\* The ? of Rust: the Err is returned as it is, the Ok goes on into Rest.
Try(result, Rest(_)) == IF result.ok THEN Rest(result) ELSE result

\* Parser::expression
Parser_expression(p) == Parser_assignment(p)

\* An assignment that takes whatever is on the left of `=` as its target.
Parser_assignment_to_anything(p) ==
    Try(Parser_level("or", p), LAMBDA expr :
    IF Parser_match_types(expr.p, {"Equal"})
    THEN Try(Parser_assignment(Parser_advance(expr.p)), LAMBDA value :
         Parsed(Assign(IF expr.node.kind = "Variable" THEN expr.node.name ELSE "",
                       value.node),
                value.p))
    ELSE expr)

\* Parser::assignment
Parser_assignment(p) ==
    Try(Parser_level("or", p), LAMBDA expr :
    IF Parser_match_types(expr.p, {"Equal"})
    THEN LET matched == Parser_advance(expr.p)
             equals == Parser_previous(matched)
         IN  Try(Parser_assignment(matched), LAMBDA value :
             IF expr.node.kind = "Variable"
             THEN Parsed(Assign(expr.node.name, value.node), value.p)
             ELSE create_parse_error(value.p, equals, "Invalid assignment target."))
    ELSE expr)

\* Parser::or, and, equality, comparison, term, factor: operands of the
\* next level, joined from the left by the operators of this level.
Parser_level(level, p) ==
    IF level = "unary" THEN Parser_unary(p)
    ELSE Try(Parser_level(LevelOperand[level], p), LAMBDA expr :
         Parser_level_loop(level, expr.node, expr.p))

\* The while loop of a level.
Parser_level_loop(level, expr, p) ==
    IF Parser_match_types(p, LevelOperators[level])
    THEN LET matched == Parser_advance(p)
             operator == Parser_previous(matched).token_type
         IN  Try(Parser_level(LevelOperand[level], matched), LAMBDA right :
             Parser_level_loop(level,
                               IF level \in {"or", "and"}
                               THEN Logical(expr, operator, right.node)
                               ELSE Binary(expr, operator, right.node),
                               right.p))
    ELSE Parsed(expr, p)

\* Parser::unary
Parser_unary(p) ==
    IF Parser_match_types(p, {"Bang", "Minus"})
    THEN LET matched == Parser_advance(p)
             operator == Parser_previous(matched).token_type
         IN  Try(Parser_unary(matched), LAMBDA right :
             Parsed(Unary(operator, right.node), right.p))
    ELSE Try(Parser_primary(p), LAMBDA expr : Parser_call_loop(expr.node, expr.p))

\* A loop that collects a list: what it has so far, the parser, and whether
\* it has ended (with a break when ok, with a return of Err otherwise).
Looping(list, p) == [ok |-> TRUE, node |-> list, p |-> p, ended |-> FALSE]

Ended(result) == [ok |-> result.ok, node |-> result.node, p |-> result.p, ended |-> TRUE]

\* What the loop returns when it has ended.
Returned(loop) == [ok |-> loop.ok, node |-> loop.node, p |-> loop.p]

\* One pass of the loop of the arguments in Parser::finish_call.
ArgumentPass(loop) ==
    IF loop.ended THEN loop
    ELSE IF Len(loop.node) >= MaxArguments
    THEN Ended(ParseError_new(loop.p, "Can't have more than 255 arguments."))
    ELSE LET argument == Descend("expression", loop.p)
         IN  IF ~argument.ok THEN Ended(argument)
             ELSE IF Parser_match_types(argument.p, {"Comma"})
             THEN Looping(Append(loop.node, argument.node), Parser_advance(argument.p))
             ELSE Ended(Parsed(Append(loop.node, argument.node), argument.p))

\* The first passes passes of the loop, one after the other.
RECURSIVE ArgumentPasses(_, _)
ArgumentPasses(loop, passes) ==
    IF passes = 1 THEN ArgumentPass(loop)
    ELSE CHOOSE last \in {ArgumentPasses(half, passes - passes \div 2) :
                            half \in {ArgumentPasses(loop, passes \div 2)}} : TRUE

\* The loop of the arguments in Parser::finish_call: it ends in its pass
\* MaxArguments + 1 at the latest.
Parser_arguments(p) == Returned(ArgumentPasses(Looping(<<>>, p), MaxArguments + 1))

\* Parser::finish_call
Parser_finish_call(callee, p) ==
    Try(IF ~Parser_check(p, "RightParen") THEN Parser_arguments(p) ELSE Parsed(<<>>, p),
        LAMBDA arguments :
    Try(Parser_consume(arguments.p, "RightParen", "Expect ')' after arguments."),
        LAMBDA paren :
    Parsed(Call(callee, arguments.node), paren.p)))

\* Parser::call, after its primary: the loop of the calls.
Parser_call_loop(expr, p) ==
    IF Parser_match_types(p, {"LeftParen"})
    THEN Try(Parser_finish_call(expr, Parser_advance(p)), LAMBDA called :
         Parser_call_loop(called.node, called.p))
    ELSE Parsed(expr, p)

\* Parser::primary
Parser_primary(p) ==
    LET matched == Parser_advance(p)
    IN  IF Parser_match_types(p, {"False"}) THEN Parsed(Literal(Bool(FALSE)), matched)
        ELSE IF Parser_match_types(p, {"True"}) THEN Parsed(Literal(Bool(TRUE)), matched)
        ELSE IF Parser_match_types(p, {"Nil"}) THEN Parsed(Literal(Nil), matched)
        ELSE IF Parser_match_types(p, {"Number", "String"})
        THEN Parsed(Literal(Parser_previous(matched).literal), matched)
        ELSE IF Parser_match_types(p, {"Identifier"})
        THEN Parsed(Variable(Parser_previous(matched).lexeme), matched)
        ELSE IF Parser_match_types(p, {"LeftParen"})
        THEN Try(Descend("expression", matched), LAMBDA expr :
             Try(Parser_consume(expr.p, "RightParen", "Expect ')' after expression."),
                 LAMBDA paren :
             Parsed(Grouping(expr.node), paren.p)))
        ELSE create_parse_error(p, Parser_peek(p), "Expect expression.")

\* Parser::var_declaration
Parser_var_declaration(p) ==
    Try(Parser_consume(p, "Identifier", "Expect variable name"), LAMBDA name :
    Try(IF Parser_match_types(name.p, {"Equal"})
        THEN Descend("expression", Parser_advance(name.p))
        ELSE Parsed(Literal(Nil), name.p),
        LAMBDA initializer :
    Try(Parser_consume(initializer.p, "Semicolon", "Expect ';' after variable declaration"),
        LAMBDA semicolon :
    Parsed(Var(name.node.lexeme, initializer.node), semicolon.p))))

\* Parser::expression_statement
Parser_expression_statement(p) ==
    Try(Descend("expression", p), LAMBDA expr :
    Try(Parser_consume(expr.p, "Semicolon", "Expect ';' after expression."),
        LAMBDA semicolon :
    Parsed(Expression(expr.node), semicolon.p)))

\* Parser::print_statement
Parser_print_statement(p) ==
    Try(Descend("expression", p), LAMBDA value :
    Try(Parser_consume(value.p, "Semicolon", "Expect ';' after value."), LAMBDA semicolon :
    Parsed(PrintStmt(value.node), semicolon.p)))

\* Parser::return_statement
Parser_return_statement(p) ==
    Try(IF ~Parser_check(p, "Semicolon") THEN Descend("expression", p) ELSE Parsed(NoNode, p),
        LAMBDA value :
    Try(Parser_consume(value.p, "Semicolon", "Expect ';' after return value."),
        LAMBDA semicolon :
    Parsed(Return(value.node), semicolon.p)))

\* Parser::if_statement
Parser_if_statement(p) ==
    Try(Parser_consume(p, "LeftParen", "Expect '(' after 'if'."), LAMBDA left :
    Try(Descend("expression", left.p), LAMBDA condition :
    Try(Parser_consume(condition.p, "RightParen", "Expect ')' after condition."),
        LAMBDA right :
    Try(Descend("statement", right.p), LAMBDA then_branch :
    Try(IF Parser_match_types(then_branch.p, {"Else"})
        THEN Descend("statement", Parser_advance(then_branch.p))
        ELSE Parsed(NoNode, then_branch.p),
        LAMBDA else_branch :
    Parsed(If(condition.node, then_branch.node, else_branch.node), else_branch.p))))))

\* Parser::while_statement
Parser_while_statement(p) ==
    Try(Parser_consume(p, "LeftParen", "Expect '(' after 'while'."), LAMBDA left :
    Try(Descend("expression", left.p), LAMBDA condition :
    Try(Parser_consume(condition.p, "RightParen", "Expect ')' after condition."),
        LAMBDA right :
    Try(Descend("statement", right.p), LAMBDA body :
    Parsed(While(condition.node, body.node), body.p)))))

\* Parser::for_statement: the clauses and the body, then the desugaring.
Parser_for_statement(p) ==
    Try(Parser_consume(p, "LeftParen", "Expect '(' after 'for'."), LAMBDA left :
    Try(IF Parser_match_types(left.p, {"Semicolon"})
        THEN Parsed(NoNode, Parser_advance(left.p))
        ELSE IF Parser_match_types(left.p, {"Var"})
        THEN Parser_var_declaration(Parser_advance(left.p))
        ELSE Parser_expression_statement(left.p),
        LAMBDA initializer :
    Try(IF ~Parser_check(initializer.p, "Semicolon")
        THEN Descend("expression", initializer.p)
        ELSE Parsed(NoNode, initializer.p),
        LAMBDA condition :
    Try(Parser_consume(condition.p, "Semicolon", "Expect ';' after loop condition."),
        LAMBDA semicolon :
    Try(IF ~Parser_check(semicolon.p, "RightParen")
        THEN Descend("expression", semicolon.p)
        ELSE Parsed(NoNode, semicolon.p),
        LAMBDA increment :
    Try(Parser_consume(increment.p, "RightParen", "Expect ')' after for clauses."),
        LAMBDA right :
    Try(Descend("statement", right.p), LAMBDA body :
    Parsed(for_statement(initializer.node, condition.node, increment.node, body.node),
           body.p))))))))

\* Parser::block: the loop of the declarations, then the closing brace.
Parser_block(statements, p) ==
    IF ~Parser_check(p, "RightBrace") /\ ~Parser_is_at_end(p)
    THEN LET declared == Descend("declaration", p)
         IN  Parser_block(Append(statements, declared.node), declared.p)
    ELSE Try(Parser_consume(p, "RightBrace", "Expect '}' after block."), LAMBDA brace :
         Parsed(statements, brace.p))

\* Parser::statement
Parser_statement(p) ==
    LET matched == Parser_advance(p)
    IN  IF Parser_match_types(p, {"Print"}) THEN Parser_print_statement(matched)
        ELSE IF Parser_match_types(p, {"Return"}) THEN Parser_return_statement(matched)
        ELSE IF Parser_match_types(p, {"LeftBrace"})
        THEN Try(Parser_block(<<>>, matched), LAMBDA statements :
             Parsed(Block(statements.node), statements.p))
        ELSE IF Parser_match_types(p, {"If"}) THEN Parser_if_statement(matched)
        ELSE IF Parser_match_types(p, {"While"}) THEN Parser_while_statement(matched)
        ELSE IF Parser_match_types(p, {"For"}) THEN Parser_for_statement(matched)
        ELSE Parser_expression_statement(p)

\* One pass of the loop of the parameters in Parser::function; a parameter
\* is its lexeme.
ParameterPass(loop) ==
    IF loop.ended THEN loop
    ELSE IF Len(loop.node) >= MaxParameters
    THEN Ended(ParseError_new(loop.p, "Can't have more than 255 parameters."))
    ELSE LET parameter == Parser_consume(loop.p, "Identifier", "Expect parameter name")
         IN  IF ~parameter.ok THEN Ended(parameter)
             ELSE IF Parser_match_types(parameter.p, {"Comma"})
             THEN Looping(Append(loop.node, parameter.node.lexeme),
                          Parser_advance(parameter.p))
             ELSE Ended(Parsed(Append(loop.node, parameter.node.lexeme), parameter.p))

\* The first passes passes of the loop, one after the other.
RECURSIVE ParameterPasses(_, _)
ParameterPasses(loop, passes) ==
    IF passes = 1 THEN ParameterPass(loop)
    ELSE CHOOSE last \in {ParameterPasses(half, passes - passes \div 2) :
                            half \in {ParameterPasses(loop, passes \div 2)}} : TRUE

\* The loop of the parameters in Parser::function: it ends in its pass
\* MaxParameters + 1 at the latest.
Parser_parameters(p) == Returned(ParameterPasses(Looping(<<>>, p), MaxParameters + 1))

\* Parser::function
Parser_function(p, kind) ==
    Try(Parser_consume(p, "Identifier", "Expect '" \o kind \o "' name."), LAMBDA name :
    Try(Parser_consume(name.p, "LeftParen", "Expect '(' after " \o kind \o " name."),
        LAMBDA left :
    Try(IF ~Parser_check(left.p, "RightParen")
        THEN Parser_parameters(left.p)
        ELSE Parsed(<<>>, left.p),
        LAMBDA parameters :
    Try(Parser_consume(parameters.p, "RightParen",
                       "Expect ')' after parameters of " \o kind \o "."),
        LAMBDA right :
    Try(Parser_consume(right.p, "LeftBrace", "Expect '{' before " \o kind \o " body."),
        LAMBDA brace :
    Try(Parser_block(<<>>, brace.p), LAMBDA body :
    Parsed(Function(name.node, parameters.node, body.node), body.p)))))))

\* What declaration gives for a declaration that failed.
Placeholder == Expression(Literal(Nil))

\* The unwrap_or_else of Parser::declaration: synchronize, and the
\* placeholder.
unwrap_or_else(result) ==
    IF result.ok THEN result ELSE Parsed(Placeholder, Parser_synchronize(result.p))

\* Parser::declaration
Parser_declaration(p) ==
    unwrap_or_else(IF Parser_match_types(p, {"Fun"})
                   THEN Parser_function(Parser_advance(p), "function")
                   ELSE IF Parser_match_types(p, {"Var"})
                   THEN Parser_var_declaration(Parser_advance(p))
                   ELSE Descend("statement", p))

Descend(method, p) ==
    CASE method = "expression" -> Parser_expression(p)
      [] method = "statement" -> Parser_statement(p)
      [] method = "declaration" -> Parser_declaration(p)

----------------------------------------------------------------------------
\* The lines the prompt is given.  Each is the statement list Parser::parse
\* returns for the text in the comment.

X == Variable("x")

\* The name token of a function declared on a prompt line: every line is
\* scanned by a new Scanner, so it is on line 1.
Name(text, column) == add_token(text, 1, column)

Text(s) == Literal(Str(s))

After == PrintStmt(Text(<<"a", "f", "t", "e", "r">>))

YesNo(condition) == If(condition, PrintStmt(Text(<<"T">>)), PrintStmt(Text(<<"F">>)))

\* var x = 1; fun f() { print x; }
LineDeclare ==
    << Var("x", Literal(Num(1))),
       Function(Name("f", 16), <<>>, << PrintStmt(X) >>) >>

\* x = 2;
LineAssign == << Expression(Assign("x", Literal(Num(2)))) >>

\* f();
LineCall == << Expression(Call(Variable("f"), <<>>)) >>

\* { var x = 5; f(); }
LineShadow ==
    << Block(<< Var("x", Literal(Num(5))),
                Expression(Call(Variable("f"), <<>>)) >>) >>

\* print x;
LineShow == << PrintStmt(X) >>

\* fun id(x) { return x; } print id(7);
LineId ==
    << Function(Name("id", 6), <<"x">>, << Return(X) >>),
       PrintStmt(Call(Variable("id"), << Literal(Num(7)) >>)) >>

\* { x = 3; var y = 4; }
LineInner ==
    << Block(<< Expression(Assign("x", Literal(Num(3)))),
                Var("y", Literal(Num(4))) >>) >>

\* y = 1;
LineMiss == << Expression(Assign("y", Literal(Num(1)))) >>

\* print clock;
LineClock == << PrintStmt(Variable("clock")) >>

\* fun h(c) { if (c) return 1; print "after"; return; } print h(true);
LineIfReturn ==
    << Function(Name("h", 5), <<"c">>,
                << If(Variable("c"), Return(Literal(Num(1))), NoNode),
                   After,
                   Return(NoNode) >>),
       PrintStmt(Call(Variable("h"), << Literal(Bool(TRUE)) >>)) >>

\* fun w(c) { while (c) { c = false; return 1; } print "after"; } print w(true);
LineWhileReturn ==
    << Function(Name("w", 5), <<"c">>,
                << While(Variable("c"),
                         Block(<< Expression(Assign("c", Literal(Bool(FALSE)))),
                                  Return(Literal(Num(1))) >>)),
                   After >>),
       PrintStmt(Call(Variable("w"), << Literal(Bool(TRUE)) >>)) >>

\* { { return; } var z = 1; }
LineLeak ==
    << Block(<< Block(<< Return(NoNode) >>),
                Var("z", Literal(Num(1))) >>) >>

\* if (nil) print "T"; else print "F";  ... the same for false, true, 0, 1,
\* "" and "a"; print nil or 1; print 0 and 1;
LineTruth ==
    << YesNo(Literal(Nil)), YesNo(Literal(Bool(FALSE))), YesNo(Literal(Bool(TRUE))),
       YesNo(Literal(Num(0))), YesNo(Literal(Num(1))),
       YesNo(Text(<<>>)), YesNo(Text(<<"a">>)),
       PrintStmt(Logical(Literal(Nil), "Or", Literal(Num(1)))),
       PrintStmt(Logical(Literal(Num(0)), "And", Literal(Num(1)))) >>

\* fun u() {} if (u) print "T"; else print "F";
LineTruthFun ==
    << Function(Name("u", 5), <<>>, <<>>), YesNo(Variable("u")) >>

In == PrintStmt(Text(<<"i", "n">>))

\* fun e() { while (true) { print "in"; nope; print "no"; } } { e(); } print "after";
LineAbort ==
    << Function(Name("e", 5), <<>>,
                << While(Literal(Bool(TRUE)),
                         Block(<< In,
                                  Expression(Variable("nope")),
                                  PrintStmt(Text(<<"n", "o">>)) >>)) >>),
       Block(<< Expression(Call(Variable("e"), <<>>)) >>),
       After >>

\* fun p() { return 1; } var q = p; print q == p;
LineFunOne ==
    << Function(Name("p", 5), <<>>, << Return(number(<<"1">>)) >>),
       Var("q", Variable("p")),
       PrintStmt(Binary(Variable("q"), "EqualEqual", Variable("p"))) >>

\* fun p() { return 2; } print q == p; print q != p;
LineFunTwo ==
    << Function(Name("p", 5), <<>>, << Return(number(<<"2">>)) >>),
       PrintStmt(Binary(Variable("q"), "EqualEqual", Variable("p"))),
       PrintStmt(Binary(Variable("q"), "BangEqual", Variable("p"))) >>

\* fun pair(a, b) { print a; print b; return b; } print pair(1, 2);
LinePair ==
    << Function(Name("pair", 8), <<"a", "b">>,
                << PrintStmt(Variable("a")),
                   PrintStmt(Variable("b")),
                   Return(Variable("b")) >>),
       PrintStmt(Call(Variable("pair"), << number(<<"1">>), number(<<"2">>) >>)) >>

\* The largest n of the counting loops of LineCount.
MaxCount == 3

\* for (var i = 0; i < n; i = i + 1) print i;
Counting(n) ==
    for_statement(Var("i", number(<<"0">>)),
                  Binary(Variable("i"), "Less", Literal(Num(n))),
                  Assign("i", Binary(Variable("i"), "Plus", number(<<"1">>))),
                  PrintStmt(Variable("i")))

\* The counting loops for n = 0, 1, .. MaxCount, one after the other.
LineCount == [k \in 1..(MaxCount + 1) |-> Counting(k - 1)]

Pool ==
    [Declare |-> LineDeclare, Assign |-> LineAssign, Call |-> LineCall,
     Shadow |-> LineShadow, Show |-> LineShow, Id |-> LineId,
     Inner |-> LineInner, Miss |-> LineMiss, Clock |-> LineClock,
     IfReturn |-> LineIfReturn, WhileReturn |-> LineWhileReturn,
     Leak |-> LineLeak, Truth |-> LineTruth, TruthFun |-> LineTruthFun,
     Abort |-> LineAbort, FunOne |-> LineFunOne, FunTwo |-> LineFunTwo]

\* The lines that are given to the new interpreter only, as its first line:
\* they read no variable of an earlier line.  They try an operator on every
\* pair of operands, a call on every number of arguments, a call with two
\* parameters and the counting loops.

G == Variable("g")

\* nil, true, false, "", "a", 0, 1, 1.0, (-1) and g, a declared function.
Operands ==
    {Literal(Nil), Literal(Bool(TRUE)), Literal(Bool(FALSE)),
     Text(<<>>), Text(<<"a">>),
     number(<<"0">>), number(<<"1">>), number(<<"1", ".", "0">>),
     Grouping(Unary("Minus", number(<<"1">>))), G}

BinaryOperators ==
    {"Plus", "Minus", "Star", "Slash", "Greater", "GreaterEqual", "Less",
     "LessEqual", "BangEqual", "EqualEqual"}

\* fun g() {} <expression>; print "after";
Probe(expression) ==
    << Function(Name("g", 5), <<>>, <<>>), Expression(expression), After >>

\* The largest number of parameters and of arguments of the Arity lines.
MaxArgs == 2

Letters == <<"a", "b", "c", "d">>

\* fun g(<n parameters>) { print "in"; } g(<k arguments>); print "after";
ArityLine(n, k) ==
    << Function(Name("g", 5), SubSeq(Letters, 1, n), << In >>),
       Expression(Call(G, [i \in 1..k |-> Literal(Num(i))])),
       After >>

\* print "in"; return 7; print "after"; if (true) return; print "in";
LineTopReturn ==
    << In, Return(Literal(Num(7))), After,
       If(Literal(Bool(TRUE)), Return(NoNode), NoNode), In >>

\* var a = 0; <callee>(a = 1, a = a + a); print "after";
\* with a callee that takes no argument or is no function.
OrderLine(callee) ==
    << Function(Name("g", 5), <<>>, <<>>),
       Var("a", Literal(Num(0))),
       Expression(Call(callee,
                       << Assign("a", Literal(Num(1))),
                          Assign("a", Binary(Variable("a"), "Plus", Variable("a"))) >>)),
       After >>

Probes ==
    [Binary  |-> {Probe(Binary(left, operator, right)) :
                     left \in Operands, operator \in BinaryOperators, right \in Operands},
     Unary   |-> {Probe(Unary(operator, right)) :
                     operator \in {"Bang", "Minus"}, right \in Operands},
     Logical |-> {Probe(Logical(left, operator, right)) :
                     left \in Operands, operator \in {"Or", "And"}, right \in Operands},
     CallValue |-> {Probe(Call(callee, <<>>)) : callee \in Operands},
     Arity   |-> {ArityLine(n, k) : n \in 0..MaxArgs, k \in 0..MaxArgs},
     Order   |-> {OrderLine(G), OrderLine(Text(<<"s">>))},
     Pair    |-> {LinePair},
     TopReturn |-> {LineTopReturn},
     Count   |-> {LineCount}]

----------------------------------------------------------------------------
VARIABLES
    envs,         \* the arena of Environment frames (Rc<RefCell<Environment>>)
    globals,      \* Interpreter.globals
    environment,  \* Interpreter.environment
    stack,        \* the call stack: one frame per running visitor
    ret,          \* what the callee that returned last returned
    output,       \* the output sink: the texts print_visit wrote
    lines,        \* the lines run so far
    panic,        \* the message of the panic that ended the process
    scanner,      \* the Scanner that scans a source text
    parser        \* the Parser that parses a token sequence

vars == <<envs, globals, environment, stack, ret, output, lines, panic, scanner, parser>>

\* The scanner and the parser, for the steps of the interpreter.
front == <<scanner, parser>>

\* No Scanner, no Parser: the specification is about another part.
NotStarted == [returned |-> TRUE]

NoPanic == "none"

\* Result<Option<LoxType>, LoxReturn>
Ok(value) == [tag |-> "Ok", value |-> value]

Err(value) == [tag |-> "Err", value |-> value]

NoResult == [tag |-> "None", value |-> Nil]

Running == panic = NoPanic /\ stack # <<>>

Top == stack[Len(stack)]

Pop == SubSeq(stack, 1, Len(stack) - 1)

\* A visitor activation for node.
Frame(node) == [fn |-> VisitFn(node), pc |-> 0, node |-> node, locals |-> <<>>]

At(fn) == Running /\ Top.fn = fn

\* The running visitor calls callee and will go on from top.
Invoke(top, callee) ==
    /\ stack' = Append(Pop, top) \o <<callee>>
    /\ ret' = NoResult

\* The running visitor returns result to its caller.
Finish(result) ==
    /\ stack' = Pop
    /\ ret' = result

\* A failure that is not fatal: the failing expression is nil and the
\* execution goes on.
Recovers(message) ==
    /\ stack' = Pop
    /\ ret' = Ok(Nil)
    /\ UNCHANGED <<front, envs, globals, environment, output, lines, panic>>

\* panic!: the process ends where it is.
Panics(message) ==
    /\ panic' = message
    /\ UNCHANGED <<front, envs, globals, environment, stack, ret, output, lines>>

\* A step that touches the call stack only.
Quiet == UNCHANGED <<front, envs, globals, environment, output, lines, panic>>

TruthinessOfFunction == "Cannot evaluate truthiness of function."

\* The text of a count in a panic message.
RECURSIVE NumString(_)
NumString(n) ==
    IF n < 10 THEN Digit(n) ELSE NumString(n \div 10) \o Digit(n % 10)

\* The message with the two counts exchanged.
ArityMismatch_swapped(expected, got) ==
    "Expected " \o NumString(got) \o " arguments but got " \o NumString(expected) \o "."

ArityMismatch(expected, got) ==
    "Expected " \o NumString(expected) \o " arguments but got " \o NumString(got) \o "."

\* Interpreter::new, and nothing run.
Interpreter_new ==
    /\ envs = << Environment_new_with_values([clock |-> ClockNativeFunction]),
                 Environment_new >>
    /\ globals = 1
    /\ environment = 2
    /\ stack = <<>>
    /\ ret = NoResult
    /\ output = <<>>
    /\ lines = <<>>
    /\ panic = NoPanic

Init ==
    /\ Interpreter_new
    /\ scanner = NotStarted
    /\ parser = NotStarted

----------------------------------------------------------------------------
\* Lox::run on one line of the prompt: scan, parse, interpret.  A panic
\* ends the process, so no line follows one.
run ==
    /\ panic = NoPanic
    /\ stack = <<>>
    /\ Len(lines) < MaxLines
    /\ \/ \E line \in DOMAIN Pool :
             /\ lines' = Append(lines, line)
             /\ stack' = << [fn |-> "interpret", pc |-> 1, statements |-> Pool[line]] >>
       \/ /\ lines = <<>>
          /\ \E line \in DOMAIN Probes : \E statements \in Probes[line] :
                /\ lines' = <<line>>
                /\ stack' = << [fn |-> "interpret", pc |-> 1, statements |-> statements] >>
    /\ ret' = NoResult
    /\ UNCHANGED <<front, envs, globals, environment, output, panic>>

\* An interpret that ends at the first statement that returns a
\* Return-signal.
interpret_ends_on_return ==
    /\ At("interpret")
    /\ IF Top.pc <= Len(Top.statements) /\ ret.tag # "Err"
       THEN Invoke([Top EXCEPT !.pc = @ + 1], Frame(Top.statements[Top.pc]))
       ELSE Finish(NoResult)
    /\ Quiet

\* Interpreter::interpret: execute each statement, whatever it returns.
interpret ==
    /\ At("interpret")
    /\ IF Top.pc <= Len(Top.statements)
       THEN Invoke([Top EXCEPT !.pc = @ + 1], Frame(Top.statements[Top.pc]))
       ELSE Finish(NoResult)
    /\ Quiet

----------------------------------------------------------------------------
\* ExprVisitor for Interpreter.  evaluate never returns Err: only
\* return_visit, a statement visitor, makes a LoxReturn, and call_visit
\* wraps what a call returns in Ok.

literal_visit ==
    /\ At("literal_visit")
    /\ Finish(Ok(Top.node.value))
    /\ Quiet

variable_visit ==
    /\ At("variable_visit")
    /\ LET found == get(envs, environment, Top.node.name)
       IN  IF found.ok
           THEN Finish(Ok(found.value)) /\ Quiet
           ELSE Panics(UndefinedVariable(Top.node.name))

assign_visit ==
    /\ At("assign_visit")
    /\ \/ /\ Top.pc = 0
          /\ Invoke([Top EXCEPT !.pc = 1], Frame(Top.node.value))
          /\ Quiet
       \/ /\ Top.pc = 1
          /\ LET value == ret.value
                 assigned == assign(envs, environment, Top.node.name, value)
             IN  IF assigned.ok
                 THEN /\ envs' = assigned.envs
                      /\ Finish(Ok(value))
                      /\ UNCHANGED <<front, globals, environment, output, lines, panic>>
                 ELSE Panics(UndefinedVariable(Top.node.name))

\* locals is the left operand's value once it is evaluated.
binary_visit ==
    /\ At("binary_visit")
    /\ \/ /\ Top.pc = 0
          /\ Invoke([Top EXCEPT !.pc = 1], Frame(Top.node.left))
          /\ Quiet
       \/ /\ Top.pc = 1
          /\ Invoke([Top EXCEPT !.pc = 2, !.locals = <<ret.value>>], Frame(Top.node.right))
          /\ Quiet
       \/ /\ Top.pc = 2
          /\ LET result == binary(Top.node.operator, Top.locals[1], ret.value)
             IN  IF result.panics
                 THEN Panics(result.message)
                 ELSE Finish(Ok(result.value)) /\ Quiet

grouping_visit ==
    /\ At("grouping_visit")
    /\ \/ /\ Top.pc = 0
          /\ Invoke([Top EXCEPT !.pc = 1], Frame(Top.node.expression))
       \/ /\ Top.pc = 1
          /\ Finish(ret)
    /\ Quiet

logical_visit ==
    /\ At("logical_visit")
    /\ \/ /\ Top.pc = 0
          /\ Invoke([Top EXCEPT !.pc = 1], Frame(Top.node.left))
          /\ Quiet
       \/ /\ Top.pc = 1
          /\ LET left == ret.value
                 truthy == is_truthy(left)
             IN  IF truthy.panics
                 THEN Panics(TruthinessOfFunction)
                 ELSE IF (Top.node.operator = "Or") = truthy.result
                      THEN Finish(Ok(left)) /\ Quiet
                      ELSE Invoke([Top EXCEPT !.pc = 2], Frame(Top.node.right)) /\ Quiet
       \/ /\ Top.pc = 2
          /\ Finish(ret)
          /\ Quiet

unary_visit ==
    /\ At("unary_visit")
    /\ \/ /\ Top.pc = 0
          /\ Invoke([Top EXCEPT !.pc = 1], Frame(Top.node.right))
          /\ Quiet
       \/ /\ Top.pc = 1
          /\ LET result == unary(Top.node.operator, ret.value)
             IN  IF result.panics
                 THEN Panics(result.message)
                 ELSE Finish(Ok(result.value)) /\ Quiet

\* A call that checks its callee and the number of its arguments as soon as
\* the callee is evaluated, before the arguments are.
call_visit_checks_first ==
    /\ At("call_visit")
    /\ LET n == Len(Top.node.arguments)
       IN  \/ /\ Top.pc = 0
              /\ Invoke([Top EXCEPT !.pc = 1], Frame(Top.node.callee))
              /\ Quiet
           \/ /\ Top.pc \in 1..(n + 1)
              /\ LET locals == Append(Top.locals, ret.value)
                     callee == locals[1]
                     arguments == Tail(locals)
                 IN  IF callee.t # "fun"
                     THEN Panics("Can only call functions.")
                     ELSE IF n # arity(callee)
                     THEN Panics(ArityMismatch(arity(callee), n))
                     ELSE IF Top.pc <= n
                     THEN /\ Invoke([Top EXCEPT !.pc = @ + 1, !.locals = locals],
                                    Frame(Top.node.arguments[Top.pc]))
                          /\ Quiet
                     ELSE /\ Invoke([Top EXCEPT !.pc = n + 2, !.locals = locals],
                                    [fn |-> "call", pc |-> 0, function |-> callee,
                                     arguments |-> arguments])
                          /\ Quiet
           \/ /\ Top.pc = n + 2
              /\ Finish(Ok(ret.value))
              /\ Quiet

\* locals is the callee's value followed by the arguments' values.
call_visit ==
    /\ At("call_visit")
    /\ LET n == Len(Top.node.arguments)
       IN  \/ /\ Top.pc = 0
              /\ Invoke([Top EXCEPT !.pc = 1], Frame(Top.node.callee))
              /\ Quiet
           \/ /\ Top.pc \in 1..(n + 1)
              /\ LET locals == Append(Top.locals, ret.value)
                     callee == locals[1]
                     arguments == Tail(locals)
                 IN  IF Top.pc <= n
                     THEN /\ Invoke([Top EXCEPT !.pc = @ + 1, !.locals = locals],
                                    Frame(Top.node.arguments[Top.pc]))
                          /\ Quiet
                     ELSE IF callee.t # "fun"
                     THEN Panics("Can only call functions.")
                     ELSE IF Len(arguments) # arity(callee)
                     THEN Panics(ArityMismatch(arity(callee), Len(arguments)))
                     ELSE /\ Invoke([Top EXCEPT !.pc = n + 2, !.locals = locals],
                                    [fn |-> "call", pc |-> 0, function |-> callee,
                                     arguments |-> arguments])
                          /\ Quiet
           \/ /\ Top.pc = n + 2
              /\ Finish(Ok(ret.value))
              /\ Quiet

----------------------------------------------------------------------------
\* Callable::call

\* A binding of the parameters to the arguments in the reverse order.
BindParams_reversed(frame, params, arguments, index) ==
    [frame EXCEPT !.values =
        [name \in {params[i] : i \in DOMAIN params} |->
            arguments[Len(params) + 1 - (CHOOSE i \in DOMAIN params : params[i] = name)]]]

\* The loop of LoxFunction::call that defines the parameters.
RECURSIVE BindParams(_, _, _, _)
BindParams(frame, params, arguments, index) ==
    IF index > Len(params) THEN frame
    ELSE BindParams(define_frame(frame, params[index], arguments[index]),
                    params, arguments, index + 1)

\* The environment LoxFunction::call makes for the body.
CallEnvironment(declaration, arguments, interpreter_environment) ==
    BindParams(Environment_new_with_enclosing(interpreter_environment),
               declaration.params, arguments, 1)

\* The seconds ClockNativeFunction::call may read from the host clock.
ClockSeconds == {0, 1}

call ==
    /\ At("call")
    /\ \/ /\ Top.pc = 0
          /\ IF Top.function.native
             THEN \E now \in ClockSeconds : Finish(Ok(Num(now)))
             ELSE Invoke([Top EXCEPT !.pc = 1],
                         [fn |-> "execute_block", pc |-> 0,
                          statements |-> Top.function.declaration.body,
                          environment |-> CallEnvironment(Top.function.declaration,
                                                          Top.arguments, environment),
                          original_env |-> None])
          /\ Quiet
       \/ /\ Top.pc = 1
          /\ IF ret.tag = "Err" THEN Finish(Ok(ret.value)) ELSE Finish(Ok(Nil))
          /\ Quiet

----------------------------------------------------------------------------
\* Interpreter::execute_block

\* self.environment = original_env: the frames made since are dropped with
\* the last Rc that held them.
Release(es, original_env) == SubSeq(es, 1, original_env)

execute_block ==
    /\ At("execute_block")
    /\ \/ /\ Top.pc = 0
          /\ envs' = Append(envs, Top.environment)
          /\ environment' = Len(envs) + 1
          /\ stack' = Append(Pop, [Top EXCEPT !.pc = 1, !.original_env = environment])
          /\ ret' = NoResult
          /\ UNCHANGED <<front, globals, output, lines, panic>>
       \/ /\ Top.pc >= 1
          /\ ret.tag = "Err"
          /\ Finish(ret)
          /\ Quiet
       \/ /\ Top.pc >= 1
          /\ ret.tag # "Err"
          /\ Top.pc <= Len(Top.statements)
          /\ Invoke([Top EXCEPT !.pc = @ + 1], Frame(Top.statements[Top.pc]))
          /\ Quiet
       \/ /\ Top.pc = Len(Top.statements) + 1
          /\ ret.tag # "Err"
          /\ environment' = Top.original_env
          /\ envs' = Release(envs, Top.original_env)
          /\ Finish(Ok(Nil))
          /\ UNCHANGED <<front, globals, output, lines, panic>>

----------------------------------------------------------------------------
\* StmtVisitor for Interpreter

print_visit ==
    /\ At("print_visit")
    /\ \/ /\ Top.pc = 0
          /\ Invoke([Top EXCEPT !.pc = 1], Frame(Top.node.expression))
          /\ Quiet
       \/ /\ Top.pc = 1
          /\ output' = Append(output, Rendered(ret.value))
          /\ Finish(Ok(Nil))
          /\ UNCHANGED <<front, envs, globals, environment, lines, panic>>

if_visit ==
    /\ At("if_visit")
    /\ \/ /\ Top.pc = 0
          /\ Invoke([Top EXCEPT !.pc = 1], Frame(Top.node.condition))
          /\ Quiet
       \/ /\ Top.pc = 1
          /\ LET truthy == is_truthy(ret.value)
             IN  IF truthy.panics
                 THEN Panics(TruthinessOfFunction)
                 ELSE IF truthy.result
                 THEN Invoke([Top EXCEPT !.pc = 2], Frame(Top.node.then_branch)) /\ Quiet
                 ELSE IF Top.node.else_branch.kind # "None"
                 THEN Invoke([Top EXCEPT !.pc = 2], Frame(Top.node.else_branch)) /\ Quiet
                 ELSE Finish(Ok(Nil)) /\ Quiet
       \/ /\ Top.pc = 2
          /\ Finish(Ok(Nil))
          /\ Quiet

block_visit ==
    /\ At("block_visit")
    /\ \/ /\ Top.pc = 0
          /\ Invoke([Top EXCEPT !.pc = 1],
                    [fn |-> "execute_block", pc |-> 0,
                     statements |-> Top.node.statements,
                     environment |-> Environment_new_with_enclosing(environment),
                     original_env |-> None])
          /\ Quiet
       \/ /\ Top.pc = 1
          /\ Finish(Ok(Nil))
          /\ Quiet

expression_visit ==
    /\ At("expression_visit")
    /\ \/ /\ Top.pc = 0
          /\ Invoke([Top EXCEPT !.pc = 1], Frame(Top.node.expression))
       \/ /\ Top.pc = 1
          /\ Finish(Ok(Nil))
    /\ Quiet

var_visit ==
    /\ At("var_visit")
    /\ \/ /\ Top.pc = 0
          /\ Invoke([Top EXCEPT !.pc = 1], Frame(Top.node.initializer))
          /\ Quiet
       \/ /\ Top.pc = 1
          /\ envs' = define(envs, environment, Top.node.name, ret.value)
          /\ Finish(Ok(Nil))
          /\ UNCHANGED <<front, globals, environment, output, lines, panic>>

while_visit ==
    /\ At("while_visit")
    /\ \/ /\ Top.pc \in {0, 2}
          /\ Invoke([Top EXCEPT !.pc = 1], Frame(Top.node.condition))
          /\ Quiet
       \/ /\ Top.pc = 1
          /\ LET truthy == is_truthy(ret.value)
             IN  IF truthy.panics
                 THEN Panics(TruthinessOfFunction)
                 ELSE IF truthy.result
                 THEN Invoke([Top EXCEPT !.pc = 2], Frame(Top.node.body)) /\ Quiet
                 ELSE Finish(Ok(Nil)) /\ Quiet

function_visit ==
    /\ At("function_visit")
    /\ envs' = define(envs, environment, Top.node.name.lexeme, LoxFunction(Top.node))
    /\ Finish(Ok(Nil))
    /\ UNCHANGED <<front, globals, environment, output, lines, panic>>

return_visit ==
    /\ At("return_visit")
    /\ \/ /\ Top.pc = 0
          /\ IF Top.node.value.kind # "None"
             THEN Invoke([Top EXCEPT !.pc = 1], Frame(Top.node.value))
             ELSE Finish(Err(Nil))
       \/ /\ Top.pc = 1
          /\ Finish(Err(ret.value))
    /\ Quiet

----------------------------------------------------------------------------
Next ==
    \/ run
    \/ interpret
    \/ literal_visit
    \/ variable_visit
    \/ assign_visit
    \/ binary_visit
    \/ grouping_visit
    \/ logical_visit
    \/ unary_visit
    \/ call_visit
    \/ call
    \/ execute_block
    \/ print_visit
    \/ if_visit
    \/ block_visit
    \/ expression_visit
    \/ var_visit
    \/ while_visit
    \/ function_visit
    \/ return_visit

Spec == Init /\ [][Next]_vars

\* The interpreter is one thread that runs on: a visitor that can take its
\* next step takes it.  (Nothing makes the prompt get a further line.)
FairSpec == Spec /\ WF_vars(stack # <<>> /\ Next)

----------------------------------------------------------------------------
\* Notions the properties below are stated with.

Idle == panic = NoPanic /\ stack = <<>>

\* The frame that called the running one.
Caller == stack[Len(stack) - 1]

\* The frames of the chain that starts at frame e.
RECURSIVE Chain(_, _)
Chain(es, e) ==
    IF es[e].enclosing = None THEN {e} ELSE {e} \cup Chain(es, es[e].enclosing)

\* The nearest frame of the chain from e that binds name; None when no
\* frame of the chain does.
RECURSIVE Holder(_, _, _)
Holder(es, e, name) ==
    IF name \in DOMAIN es[e].values THEN e
    ELSE IF es[e].enclosing = None THEN None
    ELSE Holder(es, es[e].enclosing, name)

\* The running frame is inside a call of a declared function.
InCall == \E i \in 1..(Len(stack) - 1) : stack[i].fn = "call"

\* The running frame is inside the body of the declared function name.
InBodyOf(name) ==
    \E i \in 1..(Len(stack) - 1) :
        /\ stack[i].fn = "call"
        /\ ~stack[i].function.native
        /\ stack[i].function.declaration.name.lexeme = name

\* The blocks entered and not yet left: their execute_block activations.
EnteredBlocks ==
    {i \in 2..Len(stack) :
        /\ stack[i].fn = "execute_block"
        /\ stack[i].pc >= 1
        /\ stack[i - 1].fn = "block_visit"}

\* execute_block, called by caller_fn, returns in this step.
BlockReturns(caller_fn) ==
    /\ At("execute_block")
    /\ Top.pc >= 1
    /\ Caller.fn = caller_fn
    /\ stack' = Pop

----------------------------------------------------------------------------
\* C1: when a declared function is called, the parent of the new call frame
\* is the environment in which the function was declared, never the
\* caller's active environment.  A function is bound by function_visit in
\* the frame that is active at its declaration, so for a callee named by a
\* variable the defining environment is the frame that holds the name.
C1_CallFrameParentIsDefiningEnv ==
    (/\ At("execute_block")
     /\ Top.pc = 0
     /\ Caller.fn = "call"
     /\ stack[Len(stack) - 2].node.callee.kind = "Variable")
    => Top.environment.enclosing
         = Holder(envs, environment, stack[Len(stack) - 2].node.callee.name)

\* C2: inside a function body a Return-signal passes every if, while and
\* block executor unchanged: the executor returns at once with the signal,
\* so no later statement and no further iteration runs and the call gets
\* the returned value.
C2_ReturnUnwinds ==
    [][(/\ Running
        /\ InCall
        /\ Top.fn \in {"if_visit", "while_visit", "block_visit", "execute_block"}
        /\ ret.tag = "Err")
       => (stack' = Pop /\ ret' = ret)]_vars

\* C3: when the execute_block of a Block statement returns, normally or
\* with a Return-signal, the active environment is the one that was active
\* before the block was entered.
C3_BlockRestoresEnvironment ==
    [][BlockReturns("block_visit") => environment' = Top.original_env]_vars

\* C4: when the body of a declared function has finished, by falling off
\* its end or by return, the active environment is the one that was active
\* before the call, and the caller's names resolve through it.
C4_CallRestoresEnvironment ==
    [][BlockReturns("call")
       => /\ environment' = Top.original_env
          /\ Chain(envs', environment') = Chain(envs, Top.original_env)]_vars

\* C5: the truthiness that if, while, and, or branch on: nil and false are
\* falsy, every other value is truthy.
C5_Truthiness ==
    (/\ Running
     /\ Top.fn \in {"if_visit", "while_visit", "logical_visit"}
     /\ Top.pc = 1)
    => is_truthy(ret.value)
         = [panics |-> FALSE,
            result |-> ~(\/ ret.value.t = "nil"
                         \/ (ret.value.t = "bool" /\ ~ret.value.v))]

\* C6: in a freshly constructed interpreter, top-level code that evaluates
\* the variable clock finds a callable of arity 0.
C6_ClockIsDefined ==
    (/\ lines = <<"Clock">>
     /\ At("variable_visit")
     /\ Top.node.name = "clock")
    => LET found == get(envs, environment, "clock")
       IN  /\ found.ok
           /\ found.value.t = "fun"
           /\ arity(found.value) = 0

\* The outer variable x was assigned after f was declared.
AssignedSinceDeclared ==
    \E i, j \in 1..(Len(lines) - 1) :
        /\ i < j
        /\ lines[i] = "Declare"
        /\ lines[j] = "Assign"
        /\ \A k \in (i + 1)..Len(lines) : lines[k] # "Declare"

\* C7: the body of f reads the outer variable x from the frame it shares
\* with the declaration: after x was assigned between the declaration of f
\* and the call, the body sees the value the outer variable has now.
C7_BodySeesLatestAssignment ==
    (/\ AssignedSinceDeclared
     /\ At("variable_visit")
     /\ Top.node.name = "x"
     /\ InBodyOf("f"))
    => get(envs, environment, "x")
         = get(envs, Holder(envs, environment, "f"), "x")

\* var_visit defines its name in this step.
VarDefines == At("var_visit") /\ Top.pc = 1

\* The execute_block of a Block statement ends normally in this step.
BlockEndsNormally ==
    /\ BlockReturns("block_visit")
    /\ ret.tag # "Err"

\* C8: a var declaration changes the active frame only, a frame made inside
\* every block that is running; when a block ends normally the frames made
\* inside it are gone and the frames that were there before are as the
\* block's assignments left them: a name first declared in the block is
\* undefined again and a shadowed name resolves to the outer binding.
C8_BlockVarIsLocal ==
    [][/\ VarDefines
          => /\ \A e \in DOMAIN envs : e # environment => envs'[e] = envs[e]
             /\ \A i \in EnteredBlocks :
                   /\ environment # stack[i].original_env
                   /\ stack[i].original_env \in Chain(envs, environment)
       /\ BlockEndsNormally
          => /\ environment' = Top.original_env
             /\ Chain(envs', environment') = Chain(envs, Top.original_env)
             /\ \A e \in Chain(envs, Top.original_env) : envs'[e] = envs[e]
             /\ environment \notin DOMAIN envs']_vars

C8_ShadowEnded ==
    /\ lines = <<"Declare", "Shadow">>
    /\ Idle
    /\ get(envs, environment, "x") = [ok |-> TRUE, value |-> Num(1)]

\* assign_visit assigns, in this step, to a name some frame of the chain
\* binds.
AssignHits ==
    /\ At("assign_visit")
    /\ Top.pc = 1
    /\ Holder(envs, environment, Top.node.name) # None

\* C9: an assignment updates the binding in the nearest frame of the chain
\* that holds the name and creates no binding, in the inner frame or
\* elsewhere; every running block that was entered inside the scope of
\* that frame sees the new value from the environment it will restore.
C9_AssignUpdatesNearestHolder ==
    [][AssignHits
       => LET name == Top.node.name
              holder == Holder(envs, environment, name)
          IN  /\ DOMAIN envs' = DOMAIN envs
              /\ \A e \in DOMAIN envs :
                    /\ envs'[e].enclosing = envs[e].enclosing
                    /\ DOMAIN envs'[e].values = DOMAIN envs[e].values
                    /\ \A n \in DOMAIN envs[e].values :
                          envs'[e].values[n]
                            = IF e = holder /\ n = name THEN ret.value
                              ELSE envs[e].values[n]
              /\ \A i \in EnteredBlocks :
                    holder \in Chain(envs, stack[i].original_env)
                    => get(envs', stack[i].original_env, name)
                         = [ok |-> TRUE, value |-> ret.value]]_vars

C9_OuterAssignedFromBlock ==
    /\ lines = <<"Declare", "Inner">>
    /\ Idle
    /\ environment = 2
    /\ envs[environment].values["x"] = Num(3)
    /\ "y" \notin DOMAIN envs[environment].values

\* assign_visit assigns, in this step, to a name no frame of the chain binds.
AssignMisses ==
    /\ At("assign_visit")
    /\ Top.pc = 1
    /\ \A e \in Chain(envs, environment) : Top.node.name \notin DOMAIN envs[e].values

\* C10: an assignment to a name that no frame of the chain binds fails with
\* the undefined-variable error and leaves every frame as it was.
C10_AssignMissFails ==
    [][AssignMisses
       => /\ panic' = UndefinedVariable(Top.node.name)
          /\ envs' = envs
          /\ environment' = environment]_vars

C10_MissPanicked ==
    /\ lines = <<"Miss">>
    /\ panic = UndefinedVariable("y")
    /\ Top.fn = "assign_visit"
    /\ envs[environment].values = EmptyValues

----------------------------------------------------------------------------
\* call_visit has evaluated the callee and every argument.
CallDecides ==
    /\ At("call_visit")
    /\ Top.pc = Len(Top.node.arguments) + 1

\* The value of the callee of the call that CallDecides.
CalleeValue == Append(Top.locals, ret.value)[1]

\* The call that CallDecides has a number of arguments that is not the
\* number of parameters of its callee.
ArityMisses ==
    /\ CallDecides
    /\ CalleeValue.t = "fun"
    /\ Len(Top.node.arguments)
         # (IF CalleeValue.native THEN 0 ELSE Len(CalleeValue.declaration.params))

\* binary_visit has evaluated both operands: Top.locals[1] and ret.value.
OperandsReady == At("binary_visit") /\ Top.pc = 2

\* One of the two evaluated operands is not a number.
NotNumbers == Top.locals[1].t # "num" \/ ret.value.t # "num"

\* The step the running visitor is about to take meets a runtime error: an
\* undefined variable, a call of a value that is not callable, a call with
\* the wrong number of arguments, an operand of the wrong type, a division
\* by zero.
RuntimeError ==
    \/ At("variable_visit") /\ Holder(envs, environment, Top.node.name) = None
    \/ AssignMisses
    \/ CallDecides /\ CalleeValue.t # "fun"
    \/ ArityMisses
    \/ /\ OperandsReady
       /\ Top.node.operator \in {"Minus", "Star", "Slash", "Greater", "GreaterEqual",
                                 "Less", "LessEqual"}
       /\ NotNumbers
    \/ /\ OperandsReady
       /\ Top.node.operator = "Plus"
       /\ NotNumbers
       /\ Top.locals[1].t # "str"
       /\ ret.value.t # "str"
    \/ /\ OperandsReady
       /\ Top.node.operator = "Slash"
       /\ ~NotNumbers
       /\ ret.value.v = 0
    \/ /\ At("unary_visit")
       /\ Top.pc = 1
       /\ Top.node.operator = "Minus"
       /\ ret.value.t # "num"

\* C11: a runtime error ends the run where it is met, at any depth of
\* blocks, loops and calls: the step that meets it ends the process and
\* writes nothing, and after it no statement runs, nothing is written and
\* no line is taken.
C11_RuntimeErrorAborts ==
    [][/\ RuntimeError
          => /\ panic' # NoPanic
             /\ UNCHANGED <<envs, globals, environment, stack, ret, output, lines>>
       /\ panic # NoPanic => UNCHANGED vars]_vars

C11_AbortedInsideCall ==
    /\ lines = <<"Abort">>
    /\ panic = UndefinedVariable("nope")
    /\ output = << <<"i", "n">> >>
    /\ stack[1].pc = 3
    /\ InBodyOf("e")
    /\ Top.fn = "variable_visit"

\* C12: a call whose number of arguments k is not the number of parameters
\* n of the callee is fatal, and the message names n as expected and k as
\* got; no frame is made for the call and nothing of the body runs.
C12_ArityMismatchFails ==
    [][ArityMisses
       => LET n == IF CalleeValue.native THEN 0 ELSE Len(CalleeValue.declaration.params)
              k == Len(Top.node.arguments)
          IN  /\ panic' = "Expected " \o NumString(n) \o " arguments but got "
                             \o NumString(k) \o "."
              /\ UNCHANGED <<envs, environment, stack, output>>]_vars

C12_TwoGivenToOne ==
    /\ lines = <<"Arity">>
    /\ panic = "Expected 1 arguments but got 2."
    /\ Top.fn = "call_visit"
    /\ Len(envs) = 2
    /\ output = <<>>

----------------------------------------------------------------------------
\* The values that are falsy by the rule of C5: nil and false.
Falsy(value) == value.t = "nil" \/ value = Bool(FALSE)

\* The running visitor returns value in this step.
Yields(value) == stack' = Pop /\ ret' = Ok(value)

\* C13: a or b is the value of a, and b is not evaluated, when a is truthy;
\* a and b is the value of a, and b is not evaluated, when a is falsy;
\* otherwise b is evaluated, once, and its value is the result.
C13_LogicalShortCircuits ==
    [][/\ (At("logical_visit") /\ Top.pc = 1)
          => IF (Top.node.operator = "Or") = ~Falsy(ret.value)
             THEN Yields(ret.value)
             ELSE stack' = Append(Pop, [Top EXCEPT !.pc = 2]) \o <<Frame(Top.node.right)>>
       /\ (At("logical_visit") /\ Top.pc = 2) => Yields(ret.value)]_vars

\* C14: !x is true when x is falsy and false when x is truthy; -x is the
\* negated number when x is a number and a fatal error when x is anything
\* else.
C14_UnaryOperators ==
    [][(At("unary_visit") /\ Top.pc = 1)
       => IF Top.node.operator = "Bang" THEN Yields(Bool(Falsy(ret.value)))
          ELSE IF ret.value.t = "num" THEN Yields(Num(-ret.value.v))
          ELSE panic' # NoPanic /\ stack' = stack]_vars

\* binary_visit has evaluated the operands of == or !=.
EqualityReady ==
    /\ OperandsReady
    /\ Top.node.operator \in {"EqualEqual", "BangEqual"}

\* C15: == and != give a boolean for every pair of values and never fail:
\* nil equals nil and nothing else, values of different kinds are unequal,
\* two strings, two numbers (1 and 1.0 are one number) or two booleans are
\* equal when their contents are, and a != b is the negation of a == b
\* (for two callables as well, whose equality is the matter of C16).
C15_EqualityIsTotal ==
    [][EqualityReady
       => LET a == Top.locals[1]
              b == ret.value
              equal == IF a.t = "nil" \/ b.t = "nil" THEN a.t = b.t
                       ELSE IF a.t # b.t THEN FALSE
                       ELSE IF a.t = "fun" THEN binary("EqualEqual", a, b).value.v
                       ELSE a.v = b.v
          IN  /\ panic' = NoPanic
              /\ Yields(Bool(IF Top.node.operator = "EqualEqual" THEN equal ELSE ~equal))]_vars

C15_OneEqualsOnePointZero ==
    /\ lines = <<"Binary">>
    /\ At("expression_visit")
    /\ Top.node.expression
         = Binary(number(<<"1">>), "EqualEqual", number(<<"1", ".", "0">>))
    /\ ret = Ok(Bool(TRUE))

\* Two callables come from the same declaration: they are the native
\* function, or declared functions with the same declaration (no two
\* declarations of the lines have the same name token and the same body).
SameDeclaration(a, b) ==
    /\ a.native = b.native
    /\ a.native \/ a.declaration = b.declaration

\* C16: two callables are equal exactly when they come from the same
\* declaration: two declarations give unequal functions even when they
\* have the same name, and a declared function never equals a native one.
C16_CallablesEqualByDeclaration ==
    [][(/\ EqualityReady
        /\ Top.locals[1].t = "fun"
        /\ ret.value.t = "fun")
       => Yields(Bool((Top.node.operator = "EqualEqual")
                        = SameDeclaration(Top.locals[1], ret.value)))]_vars

\* binary_visit has evaluated the operands of +.
PlusReady == OperandsReady /\ Top.node.operator = "Plus"

\* The text of a string or a number in a concatenation.
Joined(value) == IF value.t = "str" THEN value.v ELSE NumText(value.v)

\* C17 as it is claimed: + concatenates whenever one of its operands is a
\* string, whatever the other is; when neither is a string it adds two
\* numbers and fails on any other pair.
C17_PlusConcatenatesWithAnyString ==
    [][PlusReady
       => LET a == Top.locals[1]
              b == ret.value
          IN  IF a.t = "str" \/ b.t = "str"
              THEN /\ panic' = NoPanic
                   /\ stack' = Pop
                   /\ ret'.value.t = "str"
                   /\ {a.t, b.t} \subseteq {"str", "num"}
                        => ret' = Ok(Str(Joined(a) \o Joined(b)))
              ELSE IF a.t = "num" /\ b.t = "num" THEN Yields(Num(a.v + b.v))
              ELSE panic' # NoPanic /\ stack' = stack]_vars

\* C17, amended: + concatenates when one of its operands is a string and
\* the other is a string or a number, on either side, the number written
\* in its default decimal text; it adds two numbers; every other pair, a
\* string with nil, a boolean or a callable included, is a fatal error.
C17_PlusConcatenatesStringsAndNumbers ==
    [][PlusReady
       => LET a == Top.locals[1]
              b == ret.value
          IN  IF {a.t, b.t} \subseteq {"str", "num"} /\ "str" \in {a.t, b.t}
              THEN Yields(Str(Joined(a) \o Joined(b)))
              ELSE IF a.t = "num" /\ b.t = "num" THEN Yields(Num(a.v + b.v))
              ELSE panic' # NoPanic /\ stack' = stack]_vars

C17_NumberJoinedToString ==
    /\ lines = <<"Binary">>
    /\ At("expression_visit")
    /\ Top.node.expression.operator = "Plus"
    /\ Top.node.expression.left = Grouping(Unary("Minus", number(<<"1">>)))
    /\ ret = Ok(Str(<<"-", "1", "a">>))

\* C18: / with a zero right operand is fatal whatever number the left
\* operand is, and gives no value; -, *, / and the four comparisons are
\* fatal when an operand is not a number, nil included; on two numbers
\* (the divisor not zero) they give a value.
C18_ArithmeticNeedsNumbers ==
    [][(/\ OperandsReady
        /\ Top.node.operator \in {"Minus", "Star", "Slash", "Greater", "GreaterEqual",
                                  "Less", "LessEqual"})
       => IF NotNumbers
          THEN panic' # NoPanic /\ stack' = stack /\ ret' = ret
          ELSE IF Top.node.operator = "Slash" /\ ret.value.v = 0
          THEN panic' = "Division by zero." /\ stack' = stack /\ ret' = ret
          ELSE panic' = NoPanic /\ stack' = Pop /\ ret'.tag = "Ok"]_vars

C18_DividedByZero ==
    /\ lines = <<"Binary">>
    /\ panic = "Division by zero."
    /\ Top.fn = "binary_visit"
    /\ Top.locals = <<Num(-1)>>
    /\ ret = Ok(Num(0))
    /\ output = <<>>

\* LoxFunction::call starts the body in this step.
BodyStarts == At("call") /\ Top.pc = 0 /\ ~Top.function.native

----------------------------------------------------------------------------
\* What the counting loop for n writes: 0, 1, .. n - 1.
CountText(n) == [i \in 1..n |-> NumText(i - 1)]

\* What the first k loops of LineCount write, those for 0 .. k - 1.
RECURSIVE Counted(_)
Counted(k) == IF k = 0 THEN <<>> ELSE Counted(k - 1) \o CountText(k - 1)

IsPrefix(s, t) == Len(s) <= Len(t) /\ SubSeq(t, 1, Len(s)) = s

CountRuns == lines = <<"Count">> /\ stack # <<>>

\* C20: for (var i = 0; i < n; i = i + 1) print i; runs its body exactly n
\* times, with i = 0, 1, .. n - 1 in this order, and ends: while the loops
\* for n = 0 .. MaxCount run one after the other, what is written is the
\* beginning of 0 | 0 1 | 0 1 2 | .., each loop has written its n numbers
\* when the next statement starts, the condition is evaluated before the
\* first and after every execution of the body, and the line ends with
\* all of it written.
C20_CountingLoop ==
    /\ [](CountRuns
            => /\ IsPrefix(output, Counted(MaxCount + 1))
               /\ Len(stack) = 1 => output = Counted(stack[1].pc - 1))
    /\ [][(CountRuns /\ At("while_visit") /\ Top.pc \in {0, 2})
           => stack' = Append(Pop, [Top EXCEPT !.pc = 1]) \o <<Frame(Top.node.condition)>>]_vars
    /\ CountRuns
          ~> (lines = <<"Count">> /\ Idle /\ output = Counted(MaxCount + 1))

C20_CountedToThree ==
    /\ lines = <<"Count">>
    /\ Idle
    /\ Len(output) >= 6
    /\ SubSeq(output, 4, 6) = << <<"0">>, <<"1">>, <<"2">> >>
    /\ environment = 2
    /\ Len(envs) = 2

----------------------------------------------------------------------------
\* Following the enclosing links from frame e reaches a frame with no
\* enclosing frame in at most steps steps.
RECURSIVE RootWithin(_, _, _)
RootWithin(es, e, steps) ==
    /\ e \in DOMAIN es
    /\ \/ es[e].enclosing = None
       \/ steps > 0 /\ RootWithin(es, es[e].enclosing, steps - 1)

\* The frames the interpreter holds: the active one, the globals, the ones
\* execute_block keeps to restore, and the enclosing ones of the frames
\* made for a block that has not been entered yet.
HeldFrames ==
    LET blocks == {i \in DOMAIN stack : stack[i].fn = "execute_block"}
    IN  {environment, globals}
            \cup {stack[i].original_env : i \in {j \in blocks : stack[j].pc >= 1}}
            \cup {stack[i].environment.enclosing : i \in {j \in blocks : stack[j].pc = 0}}

\* C27: the environment graph is acyclic: from the active frame, from
\* every frame the interpreter holds and from every frame of the arena,
\* the enclosing links reach a frame with no enclosing frame in finitely
\* many steps (at most as many as there are frames).  A stored function
\* value is its declaration (function.rs:12-15): it leads to no frame.
C27_EnvironmentGraphIsAcyclic ==
    /\ \A e \in HeldFrames : RootWithin(envs, e, Len(envs))
    /\ \A e \in DOMAIN envs : RootWithin(envs, e, Len(envs))

\* f runs, called from the block of LineShadow: the frame of the call, the
\* frame of the block, the initial frame.
C27_CallInsideBlock ==
    /\ InBodyOf("f")
    /\ Cardinality(Chain(envs, environment)) >= 3
    /\ \E e \in DOMAIN envs : "f" \in DOMAIN envs[e].values

----------------------------------------------------------------------------
\* The failures call_visit raises after the evaluations.
CallFailures ==
    {"Can only call functions."}
        \cup {ArityMismatch(expected, got) : expected \in 0..MaxArgs, got \in 0..MaxArgs}

\* C28: a call expression evaluates its callee first, then its arguments
\* from left to right, each once, every value kept in its place; only with
\* all of them evaluated does it check that the callee is a function and
\* that the number of arguments is its arity, and only then does it call:
\* when the failure of `<callee>(a = 1, a = a + a)` is raised, both
\* assignments have happened, in this order.
C28_CallEvaluatesThenChecks ==
    [][/\ At("call_visit")
          => LET n == Len(Top.node.arguments)
                 caller == stack'[Len(stack)]
                 callee == stack'[Len(stack')]
             IN  /\ Top.pc = 0
                    => /\ panic' = NoPanic
                       /\ Len(stack') = Len(stack) + 1
                       /\ callee = Frame(Top.node.callee)
                       /\ caller = [Top EXCEPT !.pc = 1]
                 /\ Top.pc \in 1..n
                    => /\ panic' = NoPanic
                       /\ Len(stack') = Len(stack) + 1
                       /\ callee = Frame(Top.node.arguments[Top.pc])
                       /\ caller = [Top EXCEPT !.pc = @ + 1,
                                               !.locals = Append(Top.locals, ret.value)]
                 /\ panic' # NoPanic
                    => /\ Top.pc = n + 1
                       /\ Len(Top.locals) = n
                       /\ panic' \in CallFailures
                 /\ (Len(stack') = Len(stack) + 1 /\ callee.fn = "call")
                    => /\ Top.pc = n + 1
                       /\ callee.function = Append(Top.locals, ret.value)[1]
                       /\ callee.arguments = Tail(Append(Top.locals, ret.value))
       /\ (lines = <<"Order">> /\ panic # NoPanic)
          => /\ panic \in CallFailures
             /\ get(envs, environment, "a") = [ok |-> TRUE, value |-> Num(2)]]_vars

\* "s"(a = 1, a = a + a) failed: "s" is no function, and a is 2.
C28_FailedAfterBothAssignments ==
    /\ lines = <<"Order">>
    /\ panic = "Can only call functions."
    /\ Top.fn = "call_visit"
    /\ Top.node.callee = Text(<<"s">>)
    /\ Top.pc = 3
    /\ get(envs, environment, "a") = [ok |-> TRUE, value |-> Num(2)]

----------------------------------------------------------------------------
\* A return statement of the top-level code, outside every call, gives its
\* Return-signal in this step.
TopLevelReturns ==
    /\ At("return_visit")
    /\ ~InCall
    /\ Top.pc = 1 \/ Top.node.value.kind = "None"

\* C30: a return executed in top-level code, outside every function call,
\* raises its Return-signal and nothing else: no panic, nothing written;
\* interpret drops the signal it gets from a statement and goes on with the
\* next statement, in order, until the last one; the line
\* `print "in"; return 7; print "after"; if (true) return; print "in";`
\* ends with all three texts written.
C30_TopLevelReturnIsDropped ==
    [][/\ TopLevelReturns
          => /\ stack' = Pop
             /\ ret' = Err(IF Top.pc = 1 THEN ret.value ELSE Nil)
             /\ panic' = NoPanic
             /\ output' = output
       /\ At("interpret")
          => /\ panic' = NoPanic
             /\ output' = output
             /\ UNCHANGED <<envs, environment>>
             /\ IF Top.pc <= Len(Top.statements)
                THEN stack' = << [Top EXCEPT !.pc = @ + 1], Frame(Top.statements[Top.pc]) >>
                ELSE stack' = <<>>
       /\ (lines = <<"TopReturn">> /\ Idle)
          => output = << <<"i", "n">>, <<"a", "f", "t", "e", "r">>, <<"i", "n">> >>]_vars

\* interpret has the Return-signal of `return 7;` and a statement to go on
\* with.
C30_SignalReachedInterpret ==
    /\ lines = <<"TopReturn">>
    /\ At("interpret")
    /\ ret = Err(Num(7))
    /\ Top.pc = 3
    /\ output = << <<"i", "n">> >>

----------------------------------------------------------------------------
\* The scan of a source text.

\* The longest source text.
MaxSource == 3

Sources == UNION {[1..n -> SourceChars] : n \in 0..MaxSource}

\* No source text is given yet.
NoScanner == [returned |-> FALSE, panic |-> "none", given |-> FALSE]

ScanInit ==
    /\ Interpreter_new
    /\ scanner = NoScanner
    /\ parser = NotStarted

\* Lox::run makes the Scanner of the source text it is given.
start_scanner ==
    /\ scanner = NoScanner
    /\ \E source \in Sources : scanner' = Scanner_new(source)
    /\ UNCHANGED <<envs, globals, environment, stack, ret, output, lines, panic, parser>>

\* Scanner::scan_tokens: a pass of its loop, or its end when the source is
\* consumed.
scan_tokens ==
    /\ scanner # NoScanner
    /\ scanner.panic = "none"
    /\ ~scanner.returned
    /\ \/ /\ ~Scanner_is_at_end(scanner)
          /\ scanner' = scan_token([scanner EXCEPT !.start = scanner.current])
       \/ /\ Scanner_is_at_end(scanner)
          /\ scanner' = [scanner EXCEPT
                            !.tokens = Append(@, Token_new("Eof", "", scanner.line,
                                                           scanner.column, scanner.column + 1)),
                            !.returned = TRUE]
    /\ UNCHANGED <<envs, globals, environment, stack, ret, output, lines, panic, parser>>

ScanNext == start_scanner \/ scan_tokens

ScanSpec == ScanInit /\ [][ScanNext]_vars

\* The tokens end with the only Eof, and the whole source is consumed.
EndsWithOneEof ==
    /\ scanner.current >= Len(scanner.source)
    /\ scanner.tokens # <<>>
    /\ \A i \in DOMAIN scanner.tokens :
          scanner.tokens[i].token_type = "Eof" <=> i = Len(scanner.tokens)

\* C24: for every source text the scan ends and returns tokens whose last
\* one is Eof and that hold no other Eof: no pass of scan_tokens panics,
\* every pass consumes at least one character of the source, with or
\* without an error to report, so that the passes are at most as many as
\* the characters, and what scan_tokens returns after the last one ends
\* with the only Eof, the whole source consumed.
C24_ScanEndsWithOneEof ==
    /\ [][scanner # NoScanner
            => /\ scanner'.panic = "none"
               /\ scanner'.returned \/ scanner'.current > scanner.current
               /\ scanner'.current <= Len(scanner.source)]_vars
    /\ []((scanner # NoScanner /\ scanner.returned) => EndsWithOneEof)

\* This pass of scan_tokens reports a string that is not terminated.
ReportsUnterminated ==
    /\ scanner # NoScanner
    /\ Len(scanner'.reported) > Len(scanner.reported)
    /\ scanner'.reported[Len(scanner'.reported)].message = "Unterminated string."

\* C25: a string without its closing quote gives one diagnostic, whose line
\* is the line of the opening quote (the line of the scanner when the pass
\* that reads the quote starts), and no token; the scan goes on to its end.
C25_UnterminatedStringAtOpeningLine ==
    [][ReportsUnterminated
          => /\ Len(scanner'.reported) = Len(scanner.reported) + 1
             /\ scanner'.reported[Len(scanner'.reported)].line = scanner.line
             /\ scanner'.tokens = scanner.tokens
             /\ scanner'.panic = "none"
             /\ Scanner_is_at_end(scanner')]_vars

----------------------------------------------------------------------------
\* The parse of a token sequence.

\* The token of a word of a program, as the scanner makes it (the place
\* in the line left aside).
WordToken(word) ==
    CASE word = "a" -> Token_new("Identifier", "a", 1, 0, 0)
      [] word = "b" -> Token_new("Identifier", "b", 1, 0, 0)
      [] word = "c" -> Token_new("Identifier", "c", 1, 0, 0)
      [] word = "1" -> Token_new_with_literal("Number", "1", 1, 0, 0, Num(1))
      [] word = "=" -> Token_new("Equal", "=", 1, 0, 0)
      [] word = ";" -> Token_new("Semicolon", ";", 1, 0, 0)
      [] word = "," -> Token_new("Comma", ",", 1, 0, 0)
      [] word = "(" -> Token_new("LeftParen", "(", 1, 0, 0)
      [] word = ")" -> Token_new("RightParen", ")", 1, 0, 0)
      [] word = "{" -> Token_new("LeftBrace", "{", 1, 0, 0)
      [] word = "}" -> Token_new("RightBrace", "}", 1, 0, 0)
      [] word = "+" -> Token_new("Plus", "+", 1, 0, 0)
      [] word = "<" -> Token_new("Less", "<", 1, 0, 0)
      [] word = "print" -> Token_new("Print", "print", 1, 0, 0)
      [] word = "var" -> Token_new("Var", "var", 1, 0, 0)
      [] word = "for" -> Token_new("For", "for", 1, 0, 0)
      [] word = "fun" -> Token_new("Fun", "fun", 1, 0, 0)
      [] word = "class" -> Token_new("Class", "class", 1, 0, 0)

Eof == Token_new("Eof", "", 1, 0, 1)

\* The tokens of a program given by its words: they end with Eof.
Program(words) == [i \in 1..Len(words) |-> WordToken(words[i])] \o <<Eof>>

\* The sequences of one to n of the words.
Phrases(words, n) == UNION {[1..k -> words] : k \in 1..n}

\* The longest of the programs that are tried word by word.
MaxWords == 3

ShortPrograms ==
    {<<>>} \cup Phrases({"a", "=", ";", "(", ")", "{", "}", "print", "class"}, MaxWords)

\* The most words of a malformed statement, before its semicolon.
MaxStatement == 2

\* The statements that are tried as malformed ones: a first word, more
\* words, then the only semicolon; one with an open grouping and one with
\* an invalid assignment target.
StatementWords == {"a", "="}

Statements ==
    {<<first>> \o rest \o <<";">> :
        first \in StatementWords \cup {"print", "var"},
        rest \in {<<>>} \cup Phrases(StatementWords \cup {"print"}, MaxStatement - 1)}
        \cup {<<"(", "a", ";">>, <<"1", "=", "1", ";">>}

\* Parser::parse, all of it.
RECURSIVE Parser_parse(_)
Parser_parse(p) ==
    IF Parser_is_at_end(p) THEN p
    ELSE LET declared == Descend("declaration", p)
         IN  Parser_parse([declared.p EXCEPT !.statements = Append(@, declared.node)])

\* The malformed statements: those that are no statement, parsed alone.
Malformed ==
    {words \in Statements : Parser_parse(Parser_new(Program(words))).events # <<>>}

\* The programs of two malformed statements.
MalformedPairs == {first \o second : first \in Malformed, second \in Malformed}

\* No word after the first is a keyword that starts a statement.
Plain(words) ==
    \A i \in 2..Len(words) : WordToken(words[i]).token_type \notin StatementStarts

\* The token sequences of two malformed statements that are plain.
PlainPrograms ==
    {Program(first \o second) :
        first \in {words \in Malformed : Plain(words)},
        second \in {words \in Malformed : Plain(words)}}

\* <target> = 1; for a target that is a variable, a literal, a grouping, a
\* call, a binary expression; and a = b = c;
Targets == {<<"a">>, <<"1">>, <<"(", "a", ")">>, <<"a", "(", ")">>, <<"a", "+", "b">>}

AssignmentTo(target) == target \o <<"=", "1", ";">>

Chained == <<"a", "=", "b", "=", "c", ";">>

Assignments == {AssignmentTo(target) : target \in Targets} \cup {Chained}

\* for (<initializer> <condition>; <increment>) print a; with each clause
\* given or omitted; the initializer is a declaration or an expression.
ForClauses ==
    [initializer : {<<";">>, <<"var", "a", "=", "1", ";">>, <<"a", "=", "1", ";">>},
     condition : {<<>>, <<"a", "<", "1">>},
     increment : {<<>>, <<"a", "=", "a", "+", "1">>}]

ForWords(clauses) ==
    <<"for", "(">> \o clauses.initializer \o clauses.condition \o <<";">>
        \o clauses.increment \o <<")", "print", "a", ";">>

Fors == {ForWords(clauses) : clauses \in ForClauses}

\* a, a, .. a: n times a.
Listed(n) == [i \in 1..(2 * n - 1) |-> IF i % 2 = 1 THEN "a" ELSE ","]

\* fun a(a, .. a) {} with n parameters, and a(a, .. a); with n arguments.
FunctionOf(n) == <<"fun", "a", "(">> \o Listed(n) \o <<")", "{", "}">>

CallOf(n) == <<"a", "(">> \o Listed(n) \o <<")", ";">>

AtTheLimit == {FunctionOf(MaxParameters), CallOf(MaxArguments)}

OverTheLimit == {FunctionOf(MaxParameters + 1), CallOf(MaxArguments + 1)}

\* No token sequence is given yet.
NoParser == [returned |-> FALSE, panic |-> "none", given |-> FALSE]

ParseInit ==
    /\ Interpreter_new
    /\ scanner = NotStarted
    /\ parser = NoParser

\* Lox::run makes the Parser of the tokens: here those of the words.
StartParser(words) ==
    /\ parser = NoParser
    /\ parser' = Parser_new(Program(words))
    /\ UNCHANGED <<envs, globals, environment, stack, ret, output, lines, panic, scanner>>

start_parser ==
    \/ \E words \in ShortPrograms : StartParser(words)
    \/ \E words \in MalformedPairs : StartParser(words)
    \/ \E words \in Assignments : StartParser(words)
    \/ \E words \in Fors : StartParser(words)
    \/ \E words \in AtTheLimit \cup OverTheLimit : StartParser(words)

\* Parser::parse: a pass of its loop, or its end at Eof.
parse ==
    /\ parser # NoParser
    /\ parser.panic = "none"
    /\ ~parser.returned
    /\ \/ /\ ~Parser_is_at_end(parser)
          /\ LET declared == Descend("declaration", parser)
             IN  parser' = [declared.p EXCEPT !.statements = Append(@, declared.node)]
       \/ /\ Parser_is_at_end(parser)
          /\ parser' = [parser EXCEPT !.returned = TRUE]
    /\ UNCHANGED <<envs, globals, environment, stack, ret, output, lines, panic, scanner>>

ParseNext == start_parser \/ parse

ParseSpec == ParseInit /\ [][ParseNext]_vars

----------------------------------------------------------------------------
\* C29: parse ends on every token sequence that ends in Eof: no pass of
\* its loop panics, every pass, whether it parses a declaration or fails
\* and synchronizes, moves the cursor forward by at least one token, the
\* cursor is never after the Eof token, and the token before the cursor is
\* never read with the cursor at 0 (the panic of previous).
C29_ParseMovesForward ==
    /\ [][parser # NoParser
            => /\ parser'.panic = "none"
               /\ parser'.returned \/ parser'.current > parser.current]_vars
    /\ [](parser # NoParser
            => /\ parser.panic = "none"
               /\ parser.current < Len(parser.tokens)
               /\ \A i \in 1..parser.current : parser.tokens[i].token_type # "Eof")

\* `class` starts no statement: the declaration fails at it, the first
\* token, and synchronize skips it; the parse has returned.
C29_RecoveredAtFirstToken ==
    /\ parser # NoParser
    /\ parser.returned
    /\ parser.tokens[1].token_type = "Class"
    /\ parser.events = <<"error", "synchronize">>
    /\ parser.statements = <<Placeholder>>
    /\ parser.current = Len(parser.tokens) - 1

----------------------------------------------------------------------------
----------------------------------------------------------------------------
\* C22: every parse failure is reported before the parser synchronizes:
\* each call of synchronize comes right after a report; a function
\* declaration of MaxParameters parameters and a call of MaxArguments
\* arguments are accepted, and one more parameter or argument makes the
\* declaration fail.
C22_EveryFailureIsReported ==
    parser # NoParser
        => /\ \A i \in DOMAIN parser.events :
                  parser.events[i] = "synchronize"
                      => i > 1 /\ parser.events[i - 1] = "error"
           /\ (parser.returned /\ parser.tokens \in {Program(words) : words \in AtTheLimit})
                  => /\ parser.events = <<>>
                     /\ Len(parser.statements) = 1
                     /\ parser.statements[1] # Placeholder
           /\ (parser.returned /\ parser.tokens \in {Program(words) : words \in OverTheLimit})
                  => parser.statements[1] = Placeholder

----------------------------------------------------------------------------
\* C23: `=` is accepted only after a Variable: a = 1; is the assignment to
\* a; with a literal, a grouping, a call or a binary expression on the left
\* the statement fails with the one diagnostic "Invalid assignment target."
\* at the `=`; and a = b = c; is the assignment to a of the assignment to b
\* of c.
C23_AssignmentTargetIsAVariable ==
    (parser # NoParser /\ parser.returned)
        => /\ parser.tokens = Program(AssignmentTo(<<"a">>))
                  => /\ parser.statements = <<Expression(Assign("a", Literal(Num(1))))>>
                     /\ parser.reported = <<>>
           /\ \A target \in Targets \ {<<"a">>} :
                  parser.tokens = Program(AssignmentTo(target))
                      => /\ parser.statements = <<Placeholder>>
                         /\ parser.reported =
                                <<[token |-> WordToken("="),
                                   message |-> "Invalid assignment target."]>>
           /\ parser.tokens = Program(Chained)
                  => /\ parser.statements =
                            <<Expression(Assign("a", Assign("b", Variable("c"))))>>
                     /\ parser.reported = <<>>

\* (a) = 1; has been parsed: its target is a Grouping, and the statement
\* failed.
C23_GroupingIsNoTarget ==
    /\ parser # NoParser
    /\ parser.returned
    /\ parser.tokens = Program(AssignmentTo(<<"(", "a", ")">>))
    /\ Len(parser.reported) = 1
    /\ parser.statements = <<Placeholder>>

----------------------------------------------------------------------------
\* C26: for (<initializer> <condition>; <increment>) print a; is parsed
\* into a While of the condition, or of the literal true when there is
\* none, whose body is the Block of the body and the increment as an
\* expression statement when there is an increment and the body itself
\* otherwise; the While is in a Block after the initializer when there is
\* one, and stands alone otherwise.
ClauseNode(clause) ==
    CASE clause = <<"var", "a", "=", "1", ";">> -> Var("a", Literal(Num(1)))
      [] clause = <<"a", "=", "1", ";">> -> Expression(Assign("a", Literal(Num(1))))
      [] clause = <<"a", "<", "1">> -> Binary(Variable("a"), "Less", Literal(Num(1)))
      [] clause = <<"a", "=", "a", "+", "1">> ->
             Assign("a", Binary(Variable("a"), "Plus", Literal(Num(1))))

ForShape(clauses) ==
    LET body == PrintStmt(Variable("a"))
        loop == While(IF clauses.condition = <<>>
                      THEN Literal(Bool(TRUE))
                      ELSE ClauseNode(clauses.condition),
                      IF clauses.increment = <<>>
                      THEN body
                      ELSE Block(<<body, Expression(ClauseNode(clauses.increment))>>))
    IN  IF clauses.initializer = <<";">>
        THEN loop
        ELSE Block(<<ClauseNode(clauses.initializer), loop>>)

C26_ForIsRewrittenIntoWhile ==
    \A clauses \in ForClauses :
        (parser # NoParser /\ parser.returned /\ parser.tokens = Program(ForWords(clauses)))
            => /\ parser.statements = <<ForShape(clauses)>>
               /\ parser.reported = <<>>

\* for (;;) print a; has been parsed into while (true) print a;
C26_EmptyClauses ==
    /\ parser # NoParser
    /\ parser.returned
    /\ parser.tokens = Program(<<"for", "(", ";", ";", ")", "print", "a", ";">>)
    /\ parser.statements = <<While(Literal(Bool(TRUE)), PrintStmt(Variable("a")))>>

====
